---- MODULE Spec2Model ----
(***************************************************************************)
(* A model of tools/vector_store.py: the sqlite-backed vector store with   *)
(* its chunker, its deterministic fallback embedding and its cosine        *)
(* ranking, run by several processes against one database file.            *)
(*                                                                         *)
(* Texts are sequences of one-character strings.  A stored embedding is    *)
(* kept as the vector of bucket numerators of the fallback embedding: the  *)
(* code divides every component by one positive norm, which leaves every   *)
(* cosine unchanged, and scores are compared exactly (no rounding).        *)
(***************************************************************************)
EXTENDS Integers, Sequences, FiniteSets, TLC

(***************************************************************************)
(* Bounds of the model.                                                    *)
(***************************************************************************)
\* the largest row id the model lets AUTOINCREMENT hand out
MaxId == 4
\* dimension of the fallback embedding (32 in the code, scaled down)
EMBED_DIM == 2
\* bucket count of the fallback embedding (10000 in the code, scaled down)
Buckets == 5
\* modulus of the digest that stands for SHA-256
DigestMod == 11
\* dimension of the model-backed embedding (384 in the code, scaled down)
MODEL_DIM == 3
\* SpecChunk hands the chunker every text of up to this length
MaxTextLen == 5
\* the largest capacity of a RateLimiter, in units
MaxCapacity == 2
\* the largest number of units an acquire asks for
MaxRequest == 3
\* the clock stops at this tick
MaxTime == 4
\* the most tasks a todo dict holds
MaxTasks == 4
\* the most tasks in the list handed to merge_todos
MaxNew == 2

Procs == {"p1", "p2"}
NoProc == "none"
Sources == {"S", "T"}

\* python values for the metadata argument: None, or a dict given as a
\* sequence of <<key, value>> items, a key being a str or an int
MetaNone == [tag |-> "None", items |-> <<>>]
MetaDict(items) == [tag |-> "dict", items |-> items]
StrKey(s) == [int |-> FALSE, s |-> s]
IntKey(s) == [int |-> TRUE, s |-> s]
Metas == {MetaNone, MetaDict(<<<<StrKey("type"), "features">>>>)}

\* documents handed to ingest
Texts == {
    <<" ", "\n", "\n">>,
    <<"a">>,
    <<"a", "\n", "\n", "b">>,
    <<"b", "\n", "\n", "\n", "a", " ">>
    }
\* query texts and top_k values handed to query
QueryTexts == {<<"a">>, <<"b">>}
TopKs == {-1, 0, 1, 2, 5}

(***************************************************************************)
(* Chunker: content.split("\n\n"), strip, drop the empty pieces.           *)
(***************************************************************************)
Whitespace == {" ", "\n"}

\* index of the first "\n\n" in s, 0 when there is none (str.split scans
\* from the left and its cuts do not overlap)
FindSep(s) ==
    IF \E i \in 1..(Len(s) - 1) : s[i] = "\n" /\ s[i + 1] = "\n"
    THEN CHOOSE i \in 1..(Len(s) - 1) :
            /\ s[i] = "\n" /\ s[i + 1] = "\n"
            /\ \A j \in 1..(i - 1) : ~(s[j] = "\n" /\ s[j + 1] = "\n")
    ELSE 0

\* mutant: the text is cut at its first separator only
split_once(s) ==
    LET i == FindSep(s)
    IN  IF i = 0 THEN <<s>>
        ELSE <<SubSeq(s, 1, i - 1), SubSeq(s, i + 2, Len(s))>>

RECURSIVE split(_)
split(s) ==
    LET i == FindSep(s)
    IN  IF i = 0 THEN <<s>>
        ELSE <<SubSeq(s, 1, i - 1)>> \o split(SubSeq(s, i + 2, Len(s)))

RECURSIVE lstrip(_)
lstrip(s) ==
    IF s # <<>> /\ Head(s) \in Whitespace THEN lstrip(Tail(s)) ELSE s

RECURSIVE rstrip(_)
rstrip(s) ==
    IF s # <<>> /\ s[Len(s)] \in Whitespace
    THEN rstrip(SubSeq(s, 1, Len(s) - 1)) ELSE s

strip(s) == rstrip(lstrip(s))

\* mutant: the pieces are neither trimmed nor filtered
Chunks_nostrip(content) == split(content)

\* chunks = [p.strip() for p in content.split("\n\n") if p.strip()]
Chunks(content) ==
    LET parts == split(content)
        stripped == [i \in DOMAIN parts |-> strip(parts[i])]
    IN  SelectSeq(stripped, LAMBDA c : c # <<>>)

(***************************************************************************)
(* Fallback embedding.  Digest stands for hashlib.sha256: a deterministic  *)
(* function of the text's characters.  Component i is taken from the       *)
(* digest and reduced modulo the bucket count.                             *)
(***************************************************************************)
CharCode(c) ==
    CASE c = "a" -> 1 [] c = "b" -> 2 [] c = " " -> 3 [] OTHER -> 4

RECURSIVE Digest(_)
Digest(t) ==
    IF t = <<>> THEN 7
    ELSE (Digest(SubSeq(t, 1, Len(t) - 1)) * 3 + CharCode(t[Len(t)])) % DigestMod

embed_text(t) ==
    LET h == Digest(t)
    IN  [i \in 1..EMBED_DIM |-> ((h + 1) * i * i + h) % Buckets]

\* stands for _MODEL.encode on one text: some deterministic function of
\* the text into MODEL_DIM components
model_encode(t) ==
    LET h == Digest(t)
    IN  [i \in 1..MODEL_DIM |-> 1 + (((h + i) * i) % Buckets)]

\* _embed_texts: model is the value of _HAS_MODEL in the calling process
embed_texts(model, texts) ==
    IF model THEN [i \in DOMAIN texts |-> model_encode(texts[i])]
    ELSE [i \in DOMAIN texts |-> embed_text(texts[i])]

(***************************************************************************)
(* Blob and JSON conversions.  A blob is the token list of the JSON array. *)
(***************************************************************************)
RECURSIVE JoinTokens(_)
JoinTokens(vec) ==
    IF vec = <<>> THEN <<>>
    ELSE IF Len(vec) = 1 THEN <<[num |-> vec[1]]>>
    ELSE <<[num |-> vec[1]], [sym |-> ","]>> \o JoinTokens(Tail(vec))

vector_to_blob(vec) == <<[sym |-> "["]>> \o JoinTokens(vec) \o <<[sym |-> "]"]>>

blob_to_vector(blob) ==
    LET inner == SubSeq(blob, 2, Len(blob) - 1)
        nums == SelectSeq(inner, LAMBDA tok : "num" \in DOMAIN tok)
    IN  [i \in DOMAIN nums |-> nums[i].num]

\* json.dumps of a dict: a JSON object, every key a JSON string
json_dumps(meta) ==
    [kind |-> "object",
     items |-> [i \in DOMAIN meta.items |-> <<meta.items[i][1].s, meta.items[i][2]>>]]

\* mutant: the stored text is not read, every result gets {}
json_loads_empty(text) == MetaDict(<<>>)

\* json.loads of a JSON object: a dict whose keys are str
json_loads(text) ==
    MetaDict([i \in DOMAIN text.items |-> <<StrKey(text.items[i][1]), text.items[i][2]>>])

\* a NULL in the metadata column (the column is nullable): falsy in python
SqlNull == [kind |-> "null", items |-> <<>>]

\* bytes that are no JSON text: json.loads raises JSONDecodeError on them
Garbage == [kind |-> "garbage", items |-> <<>>]
Truncated(blob) == SubSeq(blob, 1, Len(blob) - 1)

\* json.loads(blob.decode("utf-8")) returns a list for this blob
blob_decodes(blob) ==
    /\ Len(blob) >= 2
    /\ blob = vector_to_blob(blob_to_vector(blob))

\* line 159 does not raise on this metadata text: NULL is not parsed at all
metadata_decodes(text) == text.kind \in {"object", "null"}

\* the loop body of lines 152-160 runs through for this row
row_decodes(row) == blob_decodes(row.embedding) /\ metadata_decodes(row.metadata)

(***************************************************************************)
(* Similarity ranker (query, lines 148-165).  A score dot/(norm_q*norm_e)  *)
(* is kept as its dot product and the two squared norms; "or 1.0" turns a  *)
(* zero norm into 1.                                                       *)
(***************************************************************************)
Min(a, b) == IF a < b THEN a ELSE b
Max(a, b) == IF a > b THEN a ELSE b

RECURSIVE SumTo(_, _)
SumTo(f, n) == IF n = 0 THEN 0 ELSE f[n] + SumTo(f, n - 1)

\* mutant: the sum stops after the first pair
Dot_first(x, y) == IF x = <<>> \/ y = <<>> THEN 0 ELSE x[1] * y[1]

\* sum(a*b for a,b in zip(x, y)): zip stops at the shorter one
Dot(x, y) ==
    LET n == Min(Len(x), Len(y))
    IN  SumTo([i \in 1..n |-> x[i] * y[i]], n)

\* the square of (math.sqrt(sum(a*a for a in x)) or 1.0)
NormSqOr1(x) ==
    LET s == SumTo([i \in 1..Len(x) |-> x[i] * x[i]], Len(x))
    IN  IF s = 0 THEN 1 ELSE s

cosine(query_vec, emb) ==
    [dot |-> Dot(query_vec, emb),
     nq |-> NormSqOr1(query_vec),
     ne |-> NormSqOr1(emb)]

\* the order of two scores as real numbers: compare dot/sqrt(nq*ne)
SignedSq(s) == IF s.dot < 0 THEN 0 - s.dot * s.dot ELSE s.dot * s.dot
ScoreLess(s, t) == SignedSq(s) * (t.nq * t.ne) < SignedSq(t) * (s.nq * s.ne)
ScoreEq(s, t) == SignedSq(s) * (t.nq * t.ne) = SignedSq(t) * (s.nq * s.ne)

\* one pass of the loop of lines 152-160 for one fetched row
score_row(query_vec, row) ==
    [score |-> cosine(query_vec, blob_to_vector(row.embedding)),
     source_id |-> row.source_id,
     content |-> row.content,
     metadata |-> IF row.metadata # SqlNull THEN json_loads(row.metadata)
                  ELSE MetaDict(<<>>)]

\* mutant: an unstable sort, a new element goes before its equals
InsertDesc_unstable(sorted, x) ==
    LET k == Cardinality({i \in DOMAIN sorted : ScoreLess(x.score, sorted[i].score)})
    IN  SubSeq(sorted, 1, k) \o <<x>> \o SubSeq(sorted, k + 1, Len(sorted))

\* list.sort(key=score, reverse=True): stable, equal scores keep their order
InsertDesc(sorted, x) ==
    LET k == Cardinality({i \in DOMAIN sorted : ~ScoreLess(sorted[i].score, x.score)})
    IN  SubSeq(sorted, 1, k) \o <<x>> \o SubSeq(sorted, k + 1, Len(sorted))

\* mutant: reverse=True is missing, the sort is ascending
RECURSIVE sort_asc(_)
sort_asc(scored) ==
    IF scored = <<>> THEN <<>>
    ELSE LET front == sort_asc(SubSeq(scored, 1, Len(scored) - 1))
             x == scored[Len(scored)]
             k == Cardinality({i \in DOMAIN front : ~ScoreLess(x.score, front[i].score)})
         IN  SubSeq(front, 1, k) \o <<x>> \o SubSeq(front, k + 1, Len(front))

RECURSIVE sort_desc(_)
sort_desc(scored) ==
    IF scored = <<>> THEN <<>>
    ELSE InsertDesc(sort_desc(SubSeq(scored, 1, Len(scored) - 1)), scored[Len(scored)])

\* mutant: the slice is one too long
slice_to_long(scored, top_k) ==
    IF top_k >= 0 THEN SubSeq(scored, 1, Min(top_k + 1, Len(scored)))
    ELSE SubSeq(scored, 1, Max(Len(scored) + top_k, 0))

\* scored[:top_k], a python slice: a negative stop counts from the end
slice_to(scored, top_k) ==
    IF top_k >= 0 THEN SubSeq(scored, 1, Min(top_k, Len(scored)))
    ELSE SubSeq(scored, 1, Max(Len(scored) + top_k, 0))

\* query after the rows are fetched (lines 145-165)
rank(model, rows, query_text, top_k) ==
    IF rows = <<>> THEN <<>>
    ELSE LET query_vec == embed_texts(model, <<query_text>>)[1]
             scored == [i \in DOMAIN rows |-> score_row(query_vec, rows[i])]
         IN  slice_to(sort_desc(scored), top_k)

(***************************************************************************)
(* The store and the processes that call it.                               *)
(***************************************************************************)
VARIABLES
    file,       \* DB_PATH: "absent", "blank" (a file without the table), "schema"
    db,         \* the committed database: [rows, seq]; seq is sqlite_sequence
    lock,       \* the process holding sqlite's RESERVED lock, or NoProc
    pc,         \* where each process is in its call
    call,       \* the operation and arguments of each process's call
    tx,         \* each writer's uncommitted view of the database
    rows,       \* ingest's local counter "rows"
    seen,       \* what the SELECT of query or count read
    overlap,    \* history: that SELECT ran while a write transaction was open
    ret,        \* the value a finished call returns
    last,       \* history: the last ingest, delete_source or clear that ended
    assigned,   \* history: every id handed out since the file was created
    has_model,  \* _HAS_MODEL of each process, set when it imports the module
    conn,       \* the connection opened by the call in progress is open
    leaked,     \* connections opened by calls that have ended: "none" is open,
                \* some are "open", or one is open as "writer" with tx and lock
    cache,      \* scripts/ai_tools: the rows of table cache in the cache file
    cache_op,   \* the last PromptCache call and what it returned
    stored,     \* history: the <<key, value>> of the last set of every key
    bucket,     \* a RateLimiter: _tokens, _last and capacity
    monotonic,  \* time.monotonic(), in ticks
    acq,        \* the acquire call of each thread
    environ,    \* os.environ["AI_ENABLE_NETWORK"]
    AI_ENABLE_NETWORK,  \* api_client's flag, computed when the module is imported
    ai_ret,     \* what the last call_ai returned or raised
    asked,      \* history: the first call_ai that returned, for every prompt,
                \* model and use_cache
    todo,       \* sync_memory: the dict "existing" handed to merge_todos
    merge_op    \* the last merge_todos call: its arguments and its result

\* the state of tools/vector_store.py
storeVars == <<file, db, lock, pc, call, tx, rows, seen, overlap, ret, last, assigned,
               has_model, conn, leaked>>
\* the state of scripts/ai_tools/cache.py
cacheVars == <<cache, cache_op, stored>>
\* the state of scripts/ai_tools/rate_limiter.py
limiterVars == <<bucket, monotonic, acq>>
\* the state of scripts/ai_tools/api_client.py
aiVars == <<environ, AI_ENABLE_NETWORK, ai_ret, asked>>
\* the state of tools/sync_memory.py
todoVars == <<todo, merge_op>>
\* what no operation of the vector store touches
aux == <<cacheVars, limiterVars, aiVars, todoVars>>

vars == <<storeVars, aux>>

\* python's None and a str, for a value that may be either
PyNone == [none |-> TRUE, s |-> <<>>]
PyStr(s) == [none |-> FALSE, s |-> s]
NoCacheOp == [op |-> "none", key |-> <<>>, value |-> PyNone]

\* RateLimiter(rate, capacity) as constructed at time t (lines 10-16).  Time
\* is counted in ticks and tokens in units such that one tick refills one
\* unit: for any rate > 0 this is a choice of the unit of time.
RateLimiter_new(capacity, t) == [tokens |-> capacity, last |-> t, capacity |-> capacity]
NoAcquire == [pc |-> "idle", tokens |-> 0, needed |-> 0, wake |-> 0, took |-> 0,
              during |-> 0]
NoAiRet == [kind |-> "none", text |-> <<>>, model |-> <<>>, cached |-> FALSE,
            limiter |-> FALSE]
NoMerge == [new_tasks |-> <<>>, before |-> <<>>, appended |-> 0]

NoCall == [op |-> "none", source_id |-> "", text |-> <<>>,
           metadata |-> MetaNone, top_k |-> 0]
\* base: the committed rows when the transaction began
NoTx == [rows |-> <<>>, seq |-> 0, base |-> <<>>]
NoRet == [kind |-> "none", n |-> 0, results |-> <<>>]
RetInt(n) == [kind |-> "int", n |-> n, results |-> <<>>]
RetNone == [kind |-> "None", n |-> 0, results |-> <<>>]
RetList(results) == [kind |-> "list", n |-> 0, results |-> results]
NoLast == [op |-> "none", source_id |-> "", text |-> <<>>, metadata |-> MetaNone,
           ret |-> 0, removed |-> 0, again |-> FALSE]

EmptyDb == [rows |-> <<>>, seq |-> 0]

Init ==
    /\ file = "absent"
    /\ db = EmptyDb
    /\ lock = NoProc
    /\ pc = [p \in Procs |-> "idle"]
    /\ call = [p \in Procs |-> NoCall]
    /\ tx = [p \in Procs |-> NoTx]
    /\ rows = [p \in Procs |-> 0]
    /\ seen = [p \in Procs |-> <<>>]
    /\ overlap = [p \in Procs |-> FALSE]
    /\ ret = [p \in Procs |-> NoRet]
    /\ last = NoLast
    /\ assigned = {}
    /\ has_model = [p \in Procs |-> FALSE]
    /\ conn = [p \in Procs |-> FALSE]
    /\ leaked = [p \in Procs |-> "none"]
    /\ cache = <<>>
    /\ cache_op = NoCacheOp
    /\ stored = {}
    /\ bucket = RateLimiter_new(MaxCapacity, 0)
    /\ monotonic = 0
    /\ acq = [p \in Procs |-> NoAcquire]
    /\ environ = "unset"
    /\ AI_ENABLE_NETWORK = FALSE
    /\ ai_ret = NoAiRet
    /\ asked = {}
    /\ todo = [has_tasks |-> FALSE, tasks |-> <<>>]
    /\ merge_op = NoMerge

\* mutant: every embed call tries the import again, and it succeeds
active_model_retry(p) == TRUE

\* "if _HAS_MODEL:" (line 61): the flag of the calling process
active_model(p) == has_model[p]

\* _EMBED_DIM = 384 if _HAS_MODEL else 32 (line 34)
embed_dim(p) == IF has_model[p] THEN MODEL_DIM ELSE EMBED_DIM

\* lines 20-34, run when a process starts and imports the module: the
\* import of sentence_transformers succeeds or fails, and the flag and the
\* dimension are fixed by it
import_module(p) ==
    /\ pc[p] = "idle"
    /\ \E m \in BOOLEAN : has_model' = [has_model EXCEPT ![p] = m]
    /\ UNCHANGED <<aux, conn, leaked, file, db, lock, pc, call, tx, rows, seen, overlap, ret, last, assigned>>

\* the rows of one source
RowsOf(rs, source_id) == SelectSeq(rs, LAMBDA r : r.source_id = source_id)

\* mutant: the DELETE is missing
DeleteWhere_keep(rs, source_id) == rs

\* mutant: the WHERE clause is missing
DeleteWhere_all(rs, source_id) == <<>>

\* mutant: the DELETE stops after the first row it finds
DeleteWhere_first(rs, source_id) ==
    IF RowsOf(rs, source_id) = <<>> THEN rs
    ELSE LET k == CHOOSE i \in DOMAIN rs :
                    /\ rs[i].source_id = source_id
                    /\ \A j \in 1..(i - 1) : rs[j].source_id # source_id
         IN  SubSeq(rs, 1, k - 1) \o SubSeq(rs, k + 1, Len(rs))

\* the rows left by DELETE FROM vectors WHERE source_id = ?
DeleteWhere(rs, source_id) == SelectSeq(rs, LAMBDA r : r.source_id # source_id)

\* sqlite3.connect creates DB_PATH as an empty file when it is missing
Connected(f) == IF f = "absent" THEN "blank" ELSE f

(***************************************************************************)
(* init_db (lines 41-53): every operation starts with it.  CREATE TABLE IF *)
(* NOT EXISTS runs in autocommit, makes the file and the table when they   *)
(* are missing and leaves an existing table alone.                         *)
(***************************************************************************)
\* mutant: init_db does not create anything
init_db_nocreate(f) == f

init_db(f) == "schema"

AfterInit(op) ==
    CASE op = "ingest" -> "chunk"
      [] op = "delete_source" -> "delete"
      [] OTHER -> "select"

\* a caller enters operation c: the call runs up to the end of its init_db
Enter(p, c) ==
    /\ pc[p] = "idle"
    /\ call' = [call EXCEPT ![p] = c]
    /\ file' = init_db(file)
    /\ pc' = [pc EXCEPT ![p] = AfterInit(c.op)]
    /\ UNCHANGED <<aux, conn, leaked, has_model, db, lock, tx, rows, seen, overlap, ret, last, assigned>>

IngestCalls(sources, texts, metas) ==
    {[op |-> "ingest", source_id |-> s, text |-> t, metadata |-> m, top_k |-> 0] :
        s \in sources, t \in texts, m \in metas}
DeleteCalls(sources) ==
    {[NoCall EXCEPT !.op = "delete_source", !.source_id = s] : s \in sources}
QueryCalls(texts, ks) ==
    {[NoCall EXCEPT !.op = "query", !.text = t, !.top_k = k] : t \in texts, k \in ks}
CountCall == [NoCall EXCEPT !.op = "count"]

call_ingest(p) == \E c \in IngestCalls(Sources, Texts, Metas) : Enter(p, c)
call_delete_source(p) == \E c \in DeleteCalls(Sources) : Enter(p, c)
call_query(p) == \E c \in QueryCalls(QueryTexts, TopKs) : Enter(p, c)
call_count(p) == Enter(p, CountCall)

(***************************************************************************)
(* ingest (lines 97-126).                                                  *)
(***************************************************************************)
\* lines 102-103: metadata None becomes {}
MetaArg(m) == IF m = MetaNone THEN MetaDict(<<>>) ELSE m

SameCall(l, c) ==
    /\ l.op = c.op
    /\ l.source_id = c.source_id
    /\ l.text = c.text
    /\ l.metadata = MetaArg(c.metadata)

\* the history entry of an ingest that ends returning n
IngestEnded(c, n, removed) ==
    [op |-> "ingest", source_id |-> c.source_id, text |-> c.text,
     metadata |-> MetaArg(c.metadata), ret |-> n, removed |-> removed,
     again |-> SameCall(last, c)]

\* mutant: the early return of lines 108-109 is missing
ingest_chunk_noreturn(p) ==
    /\ pc[p] = "chunk"
    /\ pc' = [pc EXCEPT ![p] = "delete"]
    /\ UNCHANGED <<aux, conn, leaked, has_model, file, db, lock, call, tx, rows, seen, overlap, ret, last, assigned>>

\* lines 107-111: chunk; no chunk, return 0; else embed
ingest_chunk(p) ==
    /\ pc[p] = "chunk"
    /\ IF Chunks(call[p].text) = <<>>
       THEN /\ ret' = [ret EXCEPT ![p] = RetInt(0)]
            /\ pc' = [pc EXCEPT ![p] = "done"]
            /\ last' = IngestEnded(call[p], 0, 0)
       ELSE /\ pc' = [pc EXCEPT ![p] = "delete"]
            /\ UNCHANGED <<conn, leaked, has_model, ret, last>>
    /\ UNCHANGED <<aux, conn, leaked, has_model, file, db, lock, call, tx, rows, seen, overlap, assigned>>

\* mutant: the connection is in autocommit mode (isolation_level=None), the
\* DELETE is committed on its own
ingest_delete_autocommit(p) ==
    /\ pc[p] = "delete"
    /\ call[p].op = "ingest"
    /\ file = "schema"
    /\ lock = NoProc
    /\ db.seq + Len(Chunks(call[p].text)) <= MaxId
    /\ lock' = p
    /\ db' = [db EXCEPT !.rows = SelectSeq(db.rows,
                                    LAMBDA r : r.source_id # call[p].source_id)]
    /\ tx' = [tx EXCEPT ![p] = [rows |-> db'.rows, seq |-> db.seq, base |-> db.rows]]
    /\ rows' = [rows EXCEPT ![p] = 0]
    /\ pc' = [pc EXCEPT ![p] = "insert"]
    /\ conn' = [conn EXCEPT ![p] = TRUE]
    /\ UNCHANGED <<aux, leaked, has_model, file, call, seen, overlap, ret, last, assigned>>

\* mutant: the DELETE does not wait for the write lock of another
\* connection
ingest_delete_nolock(p) ==
    /\ pc[p] = "delete"
    /\ call[p].op = "ingest"
    /\ file = "schema"
    /\ db.seq + Len(Chunks(call[p].text)) <= MaxId
    /\ lock' = p
    /\ tx' = [tx EXCEPT ![p] = [rows |-> DeleteWhere(db.rows, call[p].source_id),
                                seq |-> db.seq, base |-> db.rows]]
    /\ rows' = [rows EXCEPT ![p] = 0]
    /\ pc' = [pc EXCEPT ![p] = IF Chunks(call[p].text) = <<>> THEN "commit" ELSE "insert"]
    /\ conn' = [conn EXCEPT ![p] = TRUE]
    /\ UNCHANGED <<aux, leaked, has_model, file, db, call, seen, overlap, ret, last, assigned>>

\* lines 112-117: connect; the DELETE opens the connection's transaction
\* (python's sqlite3 begins one before a DELETE or INSERT) and takes the
\* RESERVED lock; its effect stays in the connection's view until commit
ingest_delete(p) ==
    /\ pc[p] = "delete"
    /\ call[p].op = "ingest"
    /\ file = "schema"
    /\ lock = NoProc
    /\ db.seq + Len(Chunks(call[p].text)) <= MaxId
    /\ lock' = p
    /\ tx' = [tx EXCEPT ![p] = [rows |-> DeleteWhere(db.rows, call[p].source_id),
                                seq |-> db.seq, base |-> db.rows]]
    /\ rows' = [rows EXCEPT ![p] = 0]
    /\ pc' = [pc EXCEPT ![p] = IF Chunks(call[p].text) = <<>> THEN "commit" ELSE "insert"]
    /\ conn' = [conn EXCEPT ![p] = TRUE]
    /\ UNCHANGED <<aux, leaked, has_model, file, db, call, seen, overlap, ret, last, assigned>>

\* mutant: INTEGER PRIMARY KEY without AUTOINCREMENT, one more than the
\* largest id now in the table
next_id_rowid(t) ==
    IF t.rows = <<>> THEN 1
    ELSE 1 + CHOOSE m \in {t.rows[i].id : i \in DOMAIN t.rows} :
                 \A i \in DOMAIN t.rows : t.rows[i].id <= m

\* id INTEGER PRIMARY KEY AUTOINCREMENT (line 45): one more than the largest
\* id the table ever held, which sqlite keeps in sqlite_sequence
next_id(t) == t.seq + 1

\* the row INSERT stores for chunk i of call c, model being _HAS_MODEL
NewRow(id, c, i, model) ==
    [id |-> id,
     source_id |-> c.source_id,
     content |-> Chunks(c.text)[i],
     metadata |-> json_dumps(MetaArg(c.metadata)),
     embedding |-> vector_to_blob(embed_texts(model, Chunks(c.text))[i])]

\* lines 118-123: one pass of the insert loop
ingest_insert(p) ==
    /\ pc[p] = "insert"
    /\ LET i == rows[p] + 1
           id == next_id(tx[p])
       IN  /\ tx' = [tx EXCEPT ![p] = [tx[p] EXCEPT
                                          !.rows = Append(tx[p].rows,
                                                         NewRow(id, call[p], i, active_model(p))),
                                          !.seq = id]]
           /\ rows' = [rows EXCEPT ![p] = i]
           /\ pc' = [pc EXCEPT ![p] = IF i = Len(Chunks(call[p].text))
                                      THEN "commit" ELSE "insert"]
    /\ UNCHANGED <<aux, conn, leaked, has_model, file, db, lock, call, seen, overlap, ret, last, assigned>>

NewIds(p) == {tx[p].rows[i].id : i \in DOMAIN tx[p].rows}
                \ {db.rows[i].id : i \in DOMAIN db.rows}

\* mutant: the call returns the number of rows in the table
ingest_commit_total(p) ==
    /\ pc[p] = "commit"
    /\ call[p].op = "ingest"
    /\ db' = [rows |-> tx[p].rows, seq |-> tx[p].seq]
    /\ lock' = NoProc
    /\ tx' = [tx EXCEPT ![p] = NoTx]
    /\ ret' = [ret EXCEPT ![p] = RetInt(Len(tx[p].rows))]
    /\ pc' = [pc EXCEPT ![p] = "done"]
    /\ last' = IngestEnded(call[p], rows[p], Len(RowsOf(db.rows, call[p].source_id)))
    /\ assigned' = assigned \cup NewIds(p)
    /\ conn' = [conn EXCEPT ![p] = FALSE]
    /\ UNCHANGED <<aux, leaked, has_model, file, call, rows, seen, overlap>>

\* lines 124-126: commit publishes the transaction, close, return rows
ingest_commit(p) ==
    /\ pc[p] = "commit"
    /\ call[p].op = "ingest"
    /\ db' = [rows |-> tx[p].rows, seq |-> tx[p].seq]
    /\ lock' = NoProc
    /\ tx' = [tx EXCEPT ![p] = NoTx]
    /\ ret' = [ret EXCEPT ![p] = RetInt(rows[p])]
    /\ pc' = [pc EXCEPT ![p] = "done"]
    /\ last' = IngestEnded(call[p], rows[p], Len(RowsOf(db.rows, call[p].source_id)))
    /\ assigned' = assigned \cup NewIds(p)
    /\ conn' = [conn EXCEPT ![p] = FALSE]
    /\ UNCHANGED <<aux, leaked, has_model, file, call, rows, seen, overlap>>

(***************************************************************************)
(* delete_source (lines 128-133).                                          *)
(***************************************************************************)
delete_source_delete(p) ==
    /\ pc[p] = "delete"
    /\ call[p].op = "delete_source"
    /\ file = "schema"
    /\ lock = NoProc
    /\ lock' = p
    /\ tx' = [tx EXCEPT ![p] = [rows |-> DeleteWhere(db.rows, call[p].source_id),
                                seq |-> db.seq, base |-> db.rows]]
    /\ pc' = [pc EXCEPT ![p] = "commit"]
    /\ conn' = [conn EXCEPT ![p] = TRUE]
    /\ UNCHANGED <<aux, leaked, has_model, file, db, call, rows, seen, overlap, ret, last, assigned>>

delete_source_commit(p) ==
    /\ pc[p] = "commit"
    /\ call[p].op = "delete_source"
    /\ db' = [rows |-> tx[p].rows, seq |-> tx[p].seq]
    /\ lock' = NoProc
    /\ tx' = [tx EXCEPT ![p] = NoTx]
    /\ ret' = [ret EXCEPT ![p] = RetNone]
    /\ pc' = [pc EXCEPT ![p] = "done"]
    /\ last' = [NoLast EXCEPT !.op = "delete_source",
                              !.source_id = call[p].source_id,
                              !.removed = Len(RowsOf(db.rows, call[p].source_id)),
                              !.again = (last.op = "delete_source"
                                         /\ last.source_id = call[p].source_id)]
    /\ conn' = [conn EXCEPT ![p] = FALSE]
    /\ UNCHANGED <<aux, leaked, has_model, file, call, rows, seen, overlap, assigned>>

(***************************************************************************)
(* What a statement raises instead of running.                             *)
(***************************************************************************)
\* the table is gone (DB_PATH was removed after this call's init_db):
\* connect makes an empty file and the statement raises "no such table"
no_such_table(p) ==
    /\ pc[p] \in {"delete", "select"}
    /\ call[p].op # "count"
    /\ file # "schema"
    /\ file' = Connected(file)
    /\ pc' = [pc EXCEPT ![p] = "raised"]
    /\ conn' = [conn EXCEPT ![p] = TRUE]
    /\ UNCHANGED <<aux, leaked, has_model, db, lock, call, tx, rows, seen, overlap, ret, last, assigned>>

\* another connection holds the RESERVED lock until sqlite's busy timeout
\* ends: the DELETE raises "database is locked".  The connection of a call
\* at its DELETE never holds the lock itself.
busy_timeout(p) ==
    /\ pc[p] = "delete"
    /\ file = "schema"
    /\ lock # NoProc
    /\ pc' = [pc EXCEPT ![p] = "raised"]
    /\ conn' = [conn EXCEPT ![p] = TRUE]
    /\ UNCHANGED <<aux, leaked, has_model, file, db, lock, call, tx, rows, seen, overlap, ret, last, assigned>>

(***************************************************************************)
(* query (lines 135-165) and count (lines 167-175).                        *)
(***************************************************************************)
\* SELECT ... FROM vectors without ORDER BY: sqlite scans the table's
\* rowid b-tree, so the committed rows come in ascending id order
select_all(d) == d.rows

\* json.loads raises on a fetched row (line 153 or 159): nothing catches
\* it, the query ends with JSONDecodeError
decode_error(p) ==
    /\ pc[p] = "select"
    /\ call[p].op = "query"
    /\ file = "schema"
    /\ \E i \in DOMAIN db.rows : ~row_decodes(db.rows[i])
    /\ seen' = [seen EXCEPT ![p] = select_all(db)]
    /\ overlap' = [overlap EXCEPT ![p] = (lock # NoProc)]
    /\ pc' = [pc EXCEPT ![p] = "raised"]
    /\ UNCHANGED <<aux, conn, leaked, has_model, file, db, lock, call, tx, rows, ret, last, assigned>>

query_select(p) ==
    /\ pc[p] = "select"
    /\ call[p].op = "query"
    /\ file = "schema"
    /\ \A i \in DOMAIN db.rows : row_decodes(db.rows[i])
    /\ seen' = [seen EXCEPT ![p] = select_all(db)]
    /\ overlap' = [overlap EXCEPT ![p] = (lock # NoProc)]
    /\ ret' = [ret EXCEPT ![p] = RetList(rank(active_model(p), select_all(db),
                                               call[p].text, call[p].top_k))]
    /\ pc' = [pc EXCEPT ![p] = "done"]
    /\ UNCHANGED <<aux, conn, leaked, has_model, file, db, lock, call, tx, rows, last, assigned>>

\* the try/except of lines 170-173 turns a failed SELECT into c = 0
count_select(p) ==
    /\ pc[p] = "select"
    /\ call[p].op = "count"
    /\ file' = Connected(file)
    /\ IF file = "schema"
       THEN /\ seen' = [seen EXCEPT ![p] = select_all(db)]
            /\ ret' = [ret EXCEPT ![p] = RetInt(Len(select_all(db)))]
       ELSE /\ seen' = [seen EXCEPT ![p] = <<>>]
            /\ ret' = [ret EXCEPT ![p] = RetInt(0)]
    /\ overlap' = [overlap EXCEPT ![p] = (lock # NoProc)]
    /\ pc' = [pc EXCEPT ![p] = "done"]
    /\ UNCHANGED <<aux, conn, leaked, has_model, db, lock, call, tx, rows, last, assigned>>

(***************************************************************************)
(* The call ends: its result goes to the caller.                           *)
(***************************************************************************)
\* close() of a connection, also the one python runs when the connection
\* object is freed: an open transaction is rolled back and its lock given up
Rollback(p) ==
    /\ tx' = [tx EXCEPT ![p] = NoTx]
    /\ lock' = IF lock = p THEN NoProc ELSE lock

\* the connection of the call in progress, not one left by an earlier call,
\* holds the transaction of process p
OwnsTx(p) == conn[p] /\ lock = p /\ leaked[p] # "writer"

\* A call that raised never ran its conn.close(): no try/finally encloses
\* the statements of ingest, delete_source and query.  The connection lives
\* as long as the frame that holds it, which the traceback of the exception
\* keeps: it is freed when the call ends, or it outlives the call.
return(p) ==
    /\ pc[p] \in {"done", "raised"}
    /\ pc' = [pc EXCEPT ![p] = "idle"]
    /\ call' = [call EXCEPT ![p] = NoCall]
    /\ rows' = [rows EXCEPT ![p] = 0]
    /\ seen' = [seen EXCEPT ![p] = <<>>]
    /\ overlap' = [overlap EXCEPT ![p] = FALSE]
    /\ ret' = [ret EXCEPT ![p] = NoRet]
    /\ conn' = [conn EXCEPT ![p] = FALSE]
    /\ IF ~conn[p] THEN UNCHANGED <<tx, lock, leaked>>
       ELSE \/ /\ leaked' = [leaked EXCEPT ![p] =
                                 IF OwnsTx(p) THEN "writer"
                                 ELSE IF leaked[p] = "none" THEN "open" ELSE leaked[p]]
               /\ UNCHANGED <<tx, lock>>
            \/ /\ IF OwnsTx(p) THEN Rollback(p) ELSE UNCHANGED <<tx, lock>>
               /\ UNCHANGED leaked
    /\ UNCHANGED <<aux, has_model, file, db, last, assigned>>

\* the garbage collector frees the connections that ended calls of process
\* p have left open
release(p) ==
    /\ leaked[p] # "none"
    /\ leaked' = [leaked EXCEPT ![p] = "none"]
    /\ IF leaked[p] = "writer" THEN Rollback(p) ELSE UNCHANGED <<tx, lock>>
    /\ UNCHANGED <<aux, conn, has_model, file, db, pc, call, rows, seen, overlap, ret, last,
                   assigned>>

(***************************************************************************)
(* main --clear (lines 188-191): if DB_PATH.exists(): DB_PATH.unlink().    *)
(* The next init_db makes a new file, whose sqlite_sequence starts again.  *)
(* Removing the file under an open write transaction is outside what       *)
(* sqlite supports and is not modelled: clear runs while no transaction is *)
(* open.                                                                   *)
(***************************************************************************)
\* mutant: the file is found and left as it is
clear_keep ==
    /\ lock = NoProc
    /\ last' = [NoLast EXCEPT !.op = "clear", !.removed = Len(db.rows)]
    /\ UNCHANGED <<aux, conn, leaked, has_model, file, db, assigned, lock, pc, call, tx, rows, seen,
                   overlap, ret>>

clear ==
    /\ lock = NoProc
    /\ IF file # "absent"
       THEN /\ file' = "absent"
            /\ db' = EmptyDb
            /\ assigned' = {}
       ELSE UNCHANGED <<file, db, assigned>>
    /\ last' = [NoLast EXCEPT !.op = "clear", !.removed = Len(db.rows)]
    /\ UNCHANGED <<aux, conn, leaked, has_model, lock, pc, call, tx, rows, seen, overlap, ret>>

\* the steps of a call once it is entered
Step(p) ==
    \/ ingest_chunk(p)
    \/ ingest_delete(p)
    \/ ingest_insert(p)
    \/ ingest_commit(p)
    \/ delete_source_delete(p)
    \/ delete_source_commit(p)
    \/ no_such_table(p)
    \/ query_select(p)
    \/ count_select(p)
    \/ return(p)
    \/ release(p)

(***************************************************************************)
(* Spec: one caller issues calls one after the other ("synchronous,        *)
(* single call at a time"), and the file may be cleared between any two    *)
(* of its steps.                                                           *)
(***************************************************************************)
Caller == "p1"

Next ==
    \/ call_ingest(Caller)
    \/ call_delete_source(Caller)
    \/ call_query(Caller)
    \/ call_count(Caller)
    \/ Step(Caller)
    \/ clear

Spec == Init /\ [][Next]_vars

(***************************************************************************)
(* SpecConc: two processes call the store at the same time, on one source  *)
(* and with fewer inputs.                                                  *)
(***************************************************************************)
ConcSources == {"S"}
ConcTexts == {<<" ">>, <<"a">>, <<"b", "\n", "\n", "a">>}
ConcMetas == {MetaNone}
ConcQueryTexts == {<<"a">>}
ConcTopKs == {1}

conc_call_ingest(p) == \E c \in IngestCalls(ConcSources, ConcTexts, ConcMetas) : Enter(p, c)
conc_call_delete_source(p) == \E c \in DeleteCalls(ConcSources) : Enter(p, c)
conc_call_query(p) == \E c \in QueryCalls(ConcQueryTexts, ConcTopKs) : Enter(p, c)

NextConc ==
    \/ \E p \in Procs :
        \/ conc_call_ingest(p)
        \/ conc_call_delete_source(p)
        \/ conc_call_query(p)
        \/ call_count(p)
        \/ Step(p)
        \/ busy_timeout(p)
    \/ clear

SpecConc == Init /\ [][NextConc]_vars

(***************************************************************************)
(* SpecRestart: one caller, whose process may end and start again between  *)
(* two calls; the store file stays, and the import of the model may turn   *)
(* out differently at each start.                                          *)
(***************************************************************************)
RestartTexts == {<<"a">>, <<"b">>, <<"b", "\n", "\n", "a">>}

restart_call_ingest(p) == \E c \in IngestCalls(Sources, RestartTexts, ConcMetas) : Enter(p, c)

NextRestart ==
    \/ restart_call_ingest(Caller)
    \/ call_delete_source(Caller)
    \/ conc_call_query(Caller)
    \/ call_count(Caller)
    \/ Step(Caller)
    \/ clear
    \/ import_module(Caller)

SpecRestart == Init /\ [][NextRestart]_vars

(***************************************************************************)
(* SpecFail: one caller whose ingest may fail at each step after chunking. *)
(* An exception leaves ingest at once: nothing catches it, and neither     *)
(* rollback() nor close() is called.                                       *)
(***************************************************************************)
\* _embed_texts raises (line 111): the model's encode fails, or the text
\* cannot be encoded as UTF-8; no connection is open yet
embed_error(p) ==
    /\ pc[p] = "chunk"
    /\ call[p].op = "ingest"
    /\ Chunks(call[p].text) # <<>>
    /\ pc' = [pc EXCEPT ![p] = "raised"]
    /\ UNCHANGED <<aux, conn, leaked, has_model, file, db, lock, call, tx, rows, seen, overlap,
                   ret, last, assigned>>

\* a pass of the insert loop raises (lines 119-122): json.dumps(metadata)
\* on a value that is no JSON, or the INSERT itself; the connection stays
\* open inside its transaction
insert_error(p) ==
    /\ pc[p] = "insert"
    /\ pc' = [pc EXCEPT ![p] = "raised"]
    /\ UNCHANGED <<aux, conn, leaked, has_model, file, db, lock, call, tx, rows, seen, overlap,
                   ret, last, assigned>>

\* conn.commit() raises (line 124): sqlite has rolled the transaction back
\* (disk full, I/O error) or has left it open (busy); nothing of it is
\* committed
commit_error(p) ==
    /\ pc[p] = "commit"
    /\ call[p].op = "ingest"
    /\ pc' = [pc EXCEPT ![p] = "raised"]
    /\ Rollback(p) \/ UNCHANGED <<tx, lock>>
    /\ UNCHANGED <<aux, conn, leaked, has_model, file, db, call, rows, seen, overlap, ret, last,
                   assigned>>

NextFail ==
    \/ restart_call_ingest(Caller)
    \/ call_delete_source(Caller)
    \/ conc_call_query(Caller)
    \/ call_count(Caller)
    \/ Step(Caller)
    \/ busy_timeout(Caller)
    \/ embed_error(Caller)
    \/ insert_error(Caller)
    \/ commit_error(Caller)
    \/ clear

SpecFail == Init /\ [][NextFail]_vars

(***************************************************************************)
(* SpecChunk: the chunker on every text of up to MaxTextLen characters     *)
(* over a letter, the space and the newline, and on some longer ones: one  *)
(* caller ingests such a                                                   *)
(* text for one source into a store not written since it was made, may    *)
(* ingest the same text again, and the store may be cleared.               *)
(***************************************************************************)
Alphabet == {"a", " ", "\n"}
ShortTexts == UNION {[1..n -> Alphabet] : n \in 0..MaxTextLen}
\* longer texts: three paragraphs, and paragraphs around lines of spaces
LongTexts == {
    <<"a", "\n", "\n", "a", "\n", "\n", "a">>,
    <<"a", " ", "a", "\n", "\n", "\n", "\n", "a", "\n", "a">>,
    <<" ", "a", "\n", " ", "\n", "\n", " ", "\n", "a", "\n", "\n", "a", " ">>
    }
ChunkTexts == ShortTexts \cup LongTexts

chunk_call_ingest(p) ==
    \E c \in IngestCalls(ConcSources, ChunkTexts, ConcMetas) :
        /\ \/ db.rows = <<>> /\ last.op # "ingest"
           \/ last.op = "ingest" /\ last.text = c.text
        /\ Enter(p, c)

NextChunk ==
    \/ chunk_call_ingest(Caller)
    \/ ingest_chunk(Caller)
    \/ ingest_delete(Caller)
    \/ ingest_insert(Caller)
    \/ ingest_commit(Caller)
    \/ return(Caller)
    \/ clear

SpecChunk == Init /\ [][NextChunk]_vars

(***************************************************************************)
(* SpecCorrupt: one caller, and a store file one of whose rows may be      *)
(* damaged from outside the program.  The table takes any bytes in its     *)
(* metadata and embedding columns (lines 48-49).                           *)
(***************************************************************************)
\* one committed row gets a cut-off embedding blob or a metadata text that
\* is no JSON, while every row is still intact
corrupt ==
    /\ file = "schema"
    /\ lock = NoProc
    /\ \A i \in DOMAIN db.rows : row_decodes(db.rows[i])
    /\ \E i \in DOMAIN db.rows :
          \/ db' = [db EXCEPT !.rows[i].embedding = Truncated(db.rows[i].embedding)]
          \/ db' = [db EXCEPT !.rows[i].metadata = Garbage]
    /\ UNCHANGED <<aux, conn, leaked, has_model, file, lock, pc, call, tx, rows, seen, overlap, ret, last,
                   assigned>>

NextCorrupt ==
    \/ restart_call_ingest(Caller)
    \/ call_delete_source(Caller)
    \/ conc_call_query(Caller)
    \/ call_count(Caller)
    \/ Step(Caller)
    \/ decode_error(Caller)
    \/ clear
    \/ corrupt

SpecCorrupt == Init /\ [][NextCorrupt]_vars

(***************************************************************************)
(* scripts/ai_tools/cache.py: PromptCache, a table cache(key TEXT PRIMARY   *)
(* KEY, value TEXT, ts INTEGER) in a sqlite file.  The constructor runs     *)
(* CREATE TABLE IF NOT EXISTS; every get and set opens its own connection   *)
(* and closes it in a finally clause.  A str is a sequence of characters.   *)
(***************************************************************************)
\* key TEXT compares byte by byte (BINARY collation): k and K are two keys
CacheKeys == {<<"k">>, <<"K">>, <<"j">>}
CacheValues == {<<"v">>, <<"w">>, <<>>}

\* mutant: INSERT OR IGNORE, the row of a key that is present stays
insert_or_ignore(table, key, value) ==
    IF \E i \in DOMAIN table : table[i].key = key THEN table
    ELSE Append(table, [key |-> key, value |-> value])

\* REPLACE INTO cache (key, value, ts): the PRIMARY KEY conflict removes the
\* row that has the key, then the new row is inserted
replace_into(table, key, value) ==
    Append(SelectSeq(table, LAMBDA r : r.key # key), [key |-> key, value |-> value])

\* SELECT value FROM cache WHERE key = ?, fetchone(), and line 32:
\* row[0] if row else None (a row is a 1-tuple, true even when row[0] = '')
select_value(table, key) ==
    LET found == SelectSeq(table, LAMBDA r : r.key = key)
    IN  IF found = <<>> THEN PyNone ELSE PyStr(found[1].value)

PromptCache_get(key) ==
    /\ cache_op' = [op |-> "get", key |-> key, value |-> select_value(cache, key)]
    /\ UNCHANGED <<storeVars, cache, stored, limiterVars, aiVars, todoVars>>

PromptCache_set(key, value) ==
    /\ cache' = replace_into(cache, key, value)
    /\ cache_op' = [op |-> "set", key |-> key, value |-> PyNone]
    /\ stored' = {e \in stored : e[1] # key} \cup {<<key, value>>}
    /\ UNCHANGED <<storeVars, limiterVars, aiVars, todoVars>>

NextCache ==
    \/ \E k \in CacheKeys : PromptCache_get(k)
    \/ \E k \in CacheKeys, v \in CacheValues : PromptCache_set(k, v)

SpecCache == Init /\ [][NextCache]_vars

(***************************************************************************)
(* scripts/ai_tools/rate_limiter.py: a token bucket shared by threads.     *)
(* Each "with self._lock" block is one step; the sleep between the two     *)
(* blocks of acquire runs outside the lock.                                *)
(***************************************************************************)
\* mutant: the refill is not capped
add_tokens_nocap(b, t) ==
    [b EXCEPT !.last = t, !.tokens = b.tokens + (t - b.last)]

\* _add_tokens (lines 18-22) at time t, with rate one unit a tick
add_tokens(b, t) ==
    [b EXCEPT !.last = t, !.tokens = Min(b.capacity, b.tokens + (t - b.last))]

\* another thread's acquire took n units: every waiting thread sees it
Took(a, t, n) ==
    [u \in Procs |-> IF u # t /\ a[u].pc = "sleep"
                     THEN [a[u] EXCEPT !.during = @ + n] ELSE a[u]]

\* RateLimiter(capacity=c) is constructed (lines 10-16) while no thread uses
\* the old one
RateLimiter_init(c) ==
    /\ \A t \in Procs : acq[t].pc = "idle"
    /\ bucket' = RateLimiter_new(c, monotonic)
    /\ UNCHANGED <<storeVars, cacheVars, aiVars, todoVars, monotonic, acq>>

\* acquire(tokens), first block (lines 25-31)
acquire_enter(t, tokens) ==
    /\ acq[t].pc = "idle"
    /\ LET b == add_tokens(bucket, monotonic)
       IN  IF b.tokens >= tokens
           THEN /\ bucket' = [b EXCEPT !.tokens = @ - tokens]
                /\ acq' = Took([acq EXCEPT ![t] = [NoAcquire EXCEPT !.pc = "returned",
                                                               !.tokens = tokens,
                                                               !.took = tokens]],
                                t, tokens)
           ELSE /\ bucket' = b
                /\ acq' = [acq EXCEPT ![t] =
                              [NoAcquire EXCEPT !.pc = "sleep",
                                                !.tokens = tokens,
                                                !.needed = tokens - b.tokens,
                                                \* wait = needed / self.rate
                                                !.wake = monotonic + (tokens - b.tokens)]]
    /\ UNCHANGED <<storeVars, cacheVars, aiVars, todoVars, monotonic>>

\* time.sleep(wait) has ended (it may last longer than wait); second block
\* (lines 35-40)
acquire_wake(t) ==
    /\ acq[t].pc = "sleep"
    /\ monotonic >= acq[t].wake
    /\ LET b == add_tokens(bucket, monotonic)
       IN  IF b.tokens >= acq[t].tokens
           THEN /\ bucket' = [b EXCEPT !.tokens = @ - acq[t].tokens]
                /\ acq' = Took([acq EXCEPT ![t].pc = "returned",
                                            ![t].took = acq[t].tokens],
                                t, acq[t].tokens)
           ELSE /\ bucket' = b
                /\ acq' = [acq EXCEPT ![t].pc = "raised"]
    /\ UNCHANGED <<storeVars, cacheVars, aiVars, todoVars, monotonic>>

\* the caller has the result of acquire
acquire_end(t) ==
    /\ acq[t].pc \in {"returned", "raised"}
    /\ acq' = [acq EXCEPT ![t] = NoAcquire]
    /\ UNCHANGED <<storeVars, cacheVars, aiVars, todoVars, bucket, monotonic>>

\* the monotonic clock advances
tick ==
    /\ monotonic < MaxTime
    /\ monotonic' = monotonic + 1
    /\ UNCHANGED <<storeVars, cacheVars, aiVars, todoVars, bucket, acq>>

NextLimiter ==
    \/ \E c \in 1..MaxCapacity : RateLimiter_init(c)
    \/ \E t \in Procs, n \in 0..MaxRequest : acquire_enter(t, n)
    \/ \E t \in Procs : acquire_wake(t)
    \/ \E t \in Procs : acquire_end(t)
    \/ tick

SpecLimiter == Init /\ [][NextLimiter]_vars

(***************************************************************************)
(* scripts/ai_tools/api_client.py: call_ai and the module state it uses:   *)
(* AI_ENABLE_NETWORK (lines 17-19, computed once, at import), cache =      *)
(* PromptCache() and rate_limiter = RateLimiter() (lines 22-23).           *)
(***************************************************************************)
\* the byte 0 that _make_key puts between model and prompt
NUL == "NUL"
\* AI_MODEL (line 20)
AI_MODEL == <<"g">>
\* prompt[:200] (line 60)
StubPromptLen == 200
Marker == "[AI network disabled] "

Prompts == {<<"h">>, <<"b", NUL, "h">>}
ModelArgs == {PyNone, PyStr(AI_MODEL), PyStr(<<"g", NUL, "b">>)}
\* the prompt and model arguments of the calls: two of them name one pair,
\* and two pairs have one key
AiCalls == {<<pr, m>> \in Prompts \X ModelArgs :
                pr = <<"h">> \/ m = PyNone}
EnvValues == {"unset", "TRUE", "0"}

\* os.getenv("AI_ENABLE_NETWORK", "false").lower()
getenv_lower(v) ==
    CASE v = "unset" -> "false"
      [] v = "TRUE" -> "true"
      [] OTHER -> v

\* lines 17-19
network_enabled(v) == getenv_lower(v) \in {"1", "true", "yes"}

\* _make_key (lines 26-31): sha256 of model, a zero byte and prompt; the
\* digest is taken as one to one on what it is fed
make_key(prompt, model) == model \o <<NUL>> \o prompt

\* model = model or AI_MODEL (line 44)
effective_model(m) == IF m.none \/ m.s = <<>> THEN AI_MODEL ELSE m.s

\* line 60
stub(prompt) == <<Marker>> \o SubSeq(prompt, 1, Min(Len(prompt), StubPromptLen))

\* lines 47-49: the cache is read and holds a value for the key
cache_hit(prompt, model, use_cache) ==
    use_cache /\ ~select_value(cache, make_key(prompt, model)).none

\* mutant: the stub is never written to the cache
call_ai_cache_noset(prompt, model, use_cache) == cache

\* the cache table after call_ai: line 62 writes the stub
call_ai_cache(prompt, model, use_cache) ==
    IF ~cache_hit(prompt, model, use_cache) /\ ~AI_ENABLE_NETWORK /\ use_cache
    THEN replace_into(cache, make_key(prompt, model), stub(prompt))
    ELSE cache

\* rate_limiter.acquire() of line 72 run by the one thread that uses
\* rate_limiter: both blocks of acquire and the sleep between them.
\* RateLimiter() holds one token and acquire() asks for one: the request is
\* the capacity.
acquire_alone(b, t) ==
    LET b1 == add_tokens(b, t)
        wake == t + (b.capacity - b1.tokens)
        b2 == add_tokens(b1, wake)
    IN  IF b1.tokens >= b.capacity
        THEN [bucket |-> [b1 EXCEPT !.tokens = @ - b.capacity], time |-> t]
        ELSE IF b2.tokens >= b.capacity
        THEN [bucket |-> [b2 EXCEPT !.tokens = @ - b.capacity], time |-> wake]
        ELSE [bucket |-> b2, time |-> wake]

call_ai(prompt, model_arg, use_cache) ==
    LET model == effective_model(model_arg)
        key == make_key(prompt, model)
        hit == cache_hit(prompt, model, use_cache)
        text == IF hit THEN select_value(cache, key).s ELSE stub(prompt)
        after == acquire_alone(bucket, monotonic)
    IN  /\ (~hit /\ AI_ENABLE_NETWORK) => after.time <= MaxTime
        /\ cache' = call_ai_cache(prompt, model, use_cache)
        /\ cache_op' = IF ~use_cache THEN cache_op
                        ELSE IF hit \/ AI_ENABLE_NETWORK
                        THEN [op |-> "get", key |-> key,
                              value |-> select_value(cache, key)]
                        ELSE [op |-> "set", key |-> key, value |-> PyNone]
        /\ stored' = IF cache' = cache THEN stored
                      ELSE {e \in stored : e[1] # key} \cup {<<key, stub(prompt)>>}
        /\ IF hit
           THEN /\ ai_ret' = [kind |-> "dict", text |-> text, model |-> model,
                               cached |-> TRUE, limiter |-> FALSE]
                /\ UNCHANGED <<bucket, monotonic>>
           ELSE IF ~AI_ENABLE_NETWORK
           THEN /\ ai_ret' = [kind |-> "dict", text |-> text, model |-> model,
                               cached |-> FALSE, limiter |-> FALSE]
                /\ UNCHANGED <<bucket, monotonic>>
           ELSE \* lines 72-78: acquire, then RuntimeError: no provider
                /\ ai_ret' = [NoAiRet EXCEPT !.kind = "raised", !.model = model,
                                              !.limiter = TRUE]
                /\ bucket' = after.bucket
                /\ monotonic' = after.time
        /\ asked' = IF (hit \/ ~AI_ENABLE_NETWORK)
                        /\ \A e \in asked : ~(/\ e.prompt = prompt
                                               /\ e.model = model
                                               /\ e.use_cache = use_cache)
                     THEN asked \cup {[prompt |-> prompt, model |-> model,
                                       use_cache |-> use_cache, text |-> text]}
                     ELSE asked
        /\ UNCHANGED <<storeVars, todoVars, acq, environ, AI_ENABLE_NETWORK>>

\* os.environ["AI_ENABLE_NETWORK"] is set, as monkeypatch.setenv does: the
\* imported module does not read it again
setenv(v) ==
    /\ environ' = v
    /\ UNCHANGED <<storeVars, cacheVars, limiterVars, todoVars, AI_ENABLE_NETWORK,
                   ai_ret, asked>>

\* api_client is imported by a new process, or reloaded: lines 17-23 run;
\* the cache file stays
import_api_client ==
    /\ AI_ENABLE_NETWORK' = network_enabled(environ)
    /\ bucket' = RateLimiter_new(MaxCapacity, monotonic)
    /\ ai_ret' = NoAiRet
    /\ UNCHANGED <<storeVars, cacheVars, todoVars, monotonic, acq, environ, asked>>

NextAI ==
    \/ \E c \in AiCalls, u \in BOOLEAN : call_ai(c[1], c[2], u)
    \/ \E v \in EnvValues : setenv(v)
    \/ import_api_client

SpecAI == Init /\ [][NextAI]_vars

(***************************************************************************)
(* tools/sync_memory.py: merge_todos(existing, new_tasks) (lines 66-79).   *)
(* A task is a dict; of its keys only "id" matters here: has_id says that  *)
(* the dict has the key, id is its value (None or a str).                  *)
(***************************************************************************)
TaskIds == {PyStr(<<"a">>), PyStr(<<"b">>)}
Tasks == {[has_id |-> TRUE, id |-> i] : i \in TaskIds \cup {PyNone}}
             \cup {[has_id |-> FALSE, id |-> PyNone]}

\* the lists of at most n tasks
RECURSIVE TaskLists(_)
TaskLists(n) ==
    IF n = 0 THEN {<<>>}
    ELSE TaskLists(n - 1)
             \cup {Append(l, t) : l \in {m \in TaskLists(n - 1) : Len(m) = n - 1},
                                  t \in Tasks}

\* t.get("id")
get_id(t) == IF t.has_id THEN t.id ELSE PyNone

\* line 72: known = {t["id"] for t in existing["tasks"] if "id" in t}
known_ids(tasks) == {tasks[i].id : i \in {j \in DOMAIN tasks : tasks[j].has_id}}

\* lines 74-78: the loop over new_tasks; known is the set made before it
RECURSIVE merge_loop(_, _, _, _)
merge_loop(tasks, appended, new_tasks, known) ==
    IF new_tasks = <<>> THEN [tasks |-> tasks, appended |-> appended]
    ELSE IF get_id(Head(new_tasks)) \in known
    THEN merge_loop(tasks, appended, Tail(new_tasks), known)
    ELSE merge_loop(Append(tasks, Head(new_tasks)), appended + 1, Tail(new_tasks), known)

\* merge_todos returns (existing, appended); existing["tasks"] is made when
\* it is missing (lines 70-71)
merge_todos(existing, new_tasks) ==
    LET m == merge_loop(existing.tasks, 0, new_tasks, known_ids(existing.tasks))
    IN  [existing |-> [has_tasks |-> TRUE, tasks |-> m.tasks],
         appended |-> m.appended]

\* sync (lines 92-98) takes the todo dict from the file: {"tasks": []} when
\* there is none, or a dict without "tasks"
read_todo(has_tasks) ==
    /\ todo' = [has_tasks |-> has_tasks, tasks |-> <<>>]
    /\ merge_op' = NoMerge
    /\ UNCHANGED <<storeVars, cacheVars, limiterVars, aiVars>>

merge(new_tasks) ==
    /\ Len(todo.tasks) + Len(new_tasks) <= MaxTasks
    /\ todo' = merge_todos(todo, new_tasks).existing
    /\ merge_op' = [new_tasks |-> new_tasks, before |-> todo.tasks,
                    appended |-> merge_todos(todo, new_tasks).appended]
    /\ UNCHANGED <<storeVars, cacheVars, limiterVars, aiVars>>

NextTodo ==
    \/ \E h \in BOOLEAN : read_todo(h)
    \/ \E l \in TaskLists(MaxNew) : merge(l)

SpecTodo == Init /\ [][NextTodo]_vars

(***************************************************************************)
(* Properties.                                                             *)
(***************************************************************************)
Ids(rs) == {rs[i].id : i \in DOMAIN rs}
Contents(rs) == [i \in DOMAIN rs |-> rs[i].content]
ZeroChunk(c) == c.op = "ingest" /\ Chunks(c.text) = <<>>

\* an ingest ends: by its commit, or by the early return on no chunk
IngestEnds(p) == ingest_commit(p) \/ (ingest_chunk(p) /\ pc'[p] = "done")

(* C1: replacement.  When an ingest of source S with at least one chunk    *)
(* commits, the rows stored for S are exactly the chunks of its text, in   *)
(* order, and no row that was stored before (so none made by an earlier    *)
(* ingest of S) remains for S.                                             *)
C1_Replacement ==
    [][\A p \in Procs :
        ingest_commit(p) =>
            LET now == RowsOf(db'.rows, call[p].source_id)
            IN  /\ Contents(now) = Chunks(call[p].text)
                /\ Ids(now) \cap Ids(db.rows) = {}]_vars

\* an ingest of text B has just replaced the rows of another text A
C1_Witness ==
    /\ pc[Caller] = "done"
    /\ call[Caller].op = "ingest"
    /\ last.op = "ingest" /\ last.source_id = call[Caller].source_id
    /\ last.removed > 0 /\ last.ret > 0 /\ last.removed # last.ret
    /\ Contents(RowsOf(db.rows, last.source_id)) = Chunks(last.text)

\* a step of process p inside a zero-chunk ingest, its init_db included
ZeroIngestStep(p) ==
    /\ pc'[p] # pc[p]
    /\ ZeroChunk(call'[p])

(* C3 as stated: a zero-chunk ingest performs no write to the store, in    *)
(* any state of the store, a store that was never used included: neither  *)
(* the file nor the committed database changes.                            *)
C3_NoWriteAtAll ==
    [][\A p \in Procs : ZeroIngestStep(p) => file' = file /\ db' = db]_vars

(* C3 amended: a zero-chunk ingest returns 0 and writes no row: the        *)
(* committed rows and ids stay as they are, for its source and every       *)
(* other.  Its only write is init_db's: the file and the empty table are   *)
(* made when they are missing.                                             *)
C3_ZeroChunkKeepsRows ==
    [][\A p \in Procs :
        ZeroIngestStep(p) =>
            /\ db' = db
            /\ assigned' = assigned
            /\ file' \in {file, "schema"}
            /\ (file' # file => db.rows = <<>>)
            /\ (pc'[p] = "done" => ret'[p] = RetInt(0))]_vars

\* a zero-chunk ingest has returned 0 and the rows of its source are there
C3_Witness ==
    /\ pc[Caller] = "done"
    /\ ZeroChunk(call[Caller])
    /\ ret[Caller] = RetInt(0)
    /\ RowsOf(db.rows, call[Caller].source_id) # <<>>

(* C4: idempotent re-ingest.  When an ingest ends right after an ingest of *)
(* the same (source_id, text, metadata) ended, it returns the same chunk   *)
(* count, and the number of rows of that source and the total count()      *)
(* are what they were before it.                                           *)
C4_IdempotentReingest ==
    [][\A p \in Procs :
        IngestEnds(p) /\ SameCall(last, call[p]) =>
            /\ ret'[p] = RetInt(last.ret)
            /\ Len(RowsOf(db'.rows, call[p].source_id))
                 = Len(RowsOf(db.rows, call[p].source_id))
            /\ Len(db'.rows) = Len(db.rows)]_vars

\* the same two-chunk ingest has run twice in a row
C4_Witness ==
    /\ pc[Caller] = "done"
    /\ call[Caller].op = "ingest"
    /\ last.op = "ingest" /\ last.again
    /\ last.ret = 2 /\ last.removed = 2
    /\ Len(RowsOf(db.rows, last.source_id)) = 2

(* C5: ids are never reused.  Over ingest and delete_source on one store   *)
(* file, every row that appears has an id greater than every id handed out *)
(* before in that file, also the ids of rows deleted or replaced since.    *)
C5_IdsNeverReused ==
    [][\A id \in Ids(db'.rows) \ Ids(db.rows) :
          /\ id \notin assigned
          /\ \A old \in assigned : id > old]_vars

\* a source was replaced: an id is gone and the rows stored are newer
C5_Witness ==
    /\ last.op = "ingest" /\ last.removed > 0
    /\ db.rows # <<>>
    /\ \E old \in assigned : old \notin Ids(db.rows)
    /\ \A i \in DOMAIN db.rows : db.rows[i].source_id = last.source_id

(* C2: atomic replace under concurrency (SpecConc).  Whenever a query or   *)
(* a count reads the store while another process is inside the             *)
(* transaction of an ingest of source S with at least one chunk, the rows  *)
(* of S it reads are all the rows S had when that transaction began, or    *)
(* all the new rows: never none of them, never a part of the new rows.     *)
Reads(q) == query_select(q) \/ (count_select(q) /\ file = "schema")
InIngestTx(w) == pc[w] \in {"insert", "commit"} /\ call[w].op = "ingest"

C2_AtomicReplace ==
    [][\A q \in Procs, w \in Procs :
        q # w /\ Reads(q) /\ InIngestTx(w) =>
            LET obs == RowsOf(seen'[q], call[w].source_id)
            IN  \/ obs = RowsOf(tx[w].base, call[w].source_id)
                \/ Contents(obs) = Chunks(call[w].text)]_vars

\* a query has read all the old rows of S while an ingest of S had deleted
\* them and inserted the first of its two new rows
C2_Witness ==
    \E q \in Procs, w \in Procs :
        /\ q # w
        /\ pc[w] = "insert" /\ call[w].op = "ingest" /\ rows[w] = 1
        /\ RowsOf(tx[w].base, call[w].source_id) # <<>>
        /\ pc[q] = "done" /\ call[q].op = "query" /\ overlap[q]
        /\ RowsOf(seen[q], call[w].source_id) = RowsOf(tx[w].base, call[w].source_id)
        /\ ret[q].results # <<>>

(* C6: chunk lifecycle.  In every step: a row appears only in the commit   *)
(* of an ingest of its source; a row that stays keeps its source_id,       *)
(* content, metadata and embedding; a row disappears only in a delete by   *)
(* source (the DELETE of delete_source or of a replacing ingest, for the   *)
(* row's own source) or in a clear; no step of a query or a count changes  *)
(* the rows.                                                               *)
ReadOnlyStep(p) ==
    /\ pc'[p] # pc[p]
    /\ \/ call'[p].op \in {"query", "count"}
       \/ call[p].op \in {"query", "count"}

C6_Lifecycle ==
    [][/\ \A j \in DOMAIN db'.rows :
            db'.rows[j].id \notin Ids(db.rows) =>
                \E p \in Procs : /\ ingest_commit(p)
                                 /\ db'.rows[j].source_id = call[p].source_id
       /\ \A i \in DOMAIN db.rows, j \in DOMAIN db'.rows :
            db.rows[i].id = db'.rows[j].id => db.rows[i] = db'.rows[j]
       /\ \A i \in DOMAIN db.rows :
            db.rows[i].id \notin Ids(db'.rows) =>
                \/ clear
                \/ \E p \in Procs :
                      /\ ingest_commit(p) \/ delete_source_commit(p)
                      /\ call[p].source_id = db.rows[i].source_id
       /\ \A p \in Procs : ReadOnlyStep(p) => db' = db]_vars

\* a row of T outlived the replacement of the two rows of S, and a query
\* has read it since
C6_Witness ==
    /\ last.op = "ingest" /\ last.source_id = "S" /\ last.removed = 2
    /\ \E i \in DOMAIN db.rows :
          /\ db.rows[i].source_id = "T"
          /\ \A j \in DOMAIN db.rows :
                db.rows[j].source_id = "S" => db.rows[i].id < db.rows[j].id - 2
    /\ pc[Caller] = "done" /\ call[Caller].op = "query"
    /\ seen[Caller] = db.rows

(* C7: delete_source.  Its commit leaves no row of source S, keeps every   *)
(* other row and the id counter, and returns normally; its DELETE does not *)
(* raise when S has no rows; and when S has no rows (as after a first      *)
(* call) the store is left exactly as it was.                              *)
C7_DeleteSource ==
    [][\A p \in Procs :
        /\ delete_source_commit(p) =>
              LET S == call[p].source_id
              IN  /\ \A j \in DOMAIN db'.rows : db'.rows[j].source_id # S
                  /\ \A i \in DOMAIN db.rows :
                        db.rows[i].source_id # S =>
                            \E j \in DOMAIN db'.rows : db'.rows[j] = db.rows[i]
                  /\ Len(db'.rows) = Len(db.rows) - Len(RowsOf(db.rows, S))
                  /\ db'.seq = db.seq
                  /\ (RowsOf(db.rows, S) = <<>> => db' = db)
                  /\ pc'[p] = "done" /\ ret'[p] = RetNone
        /\ (/\ pc[p] = "delete" /\ call[p].op = "delete_source"
            /\ file = "schema" /\ lock = NoProc
            /\ pc'[p] # pc[p]) => pc'[p] = "commit"]_vars

\* delete_source(S) has returned a second time in a row, S had no rows
\* left, and the rows of the other source are still stored
C7_Witness ==
    /\ pc[Caller] = "done" /\ call[Caller].op = "delete_source"
    /\ ret[Caller] = RetNone
    /\ last.op = "delete_source" /\ last.again /\ last.removed = 0
    /\ db.rows # <<>>

(* C8 as stated: for any top_k = n, query returns exactly min(n, count())  *)
(* results.  A length is never negative, so for n < 0 this is read in the  *)
(* way most favourable to the claim: no result.                            *)
C8_TopKLengthAnyN ==
    [][\A p \in Procs :
        query_select(p) =>
            Len(ret'[p].results) = Max(0, Min(call[p].top_k, Len(db.rows)))]_vars

(* C8 amended: for any top_k = n >= 0, query returns exactly               *)
(* min(n, count()) results; a top_k above the number of rows is no error   *)
(* and returns as many results as there are rows.                          *)
C8_TopKLength ==
    [][\A p \in Procs :
        query_select(p) /\ call[p].top_k >= 0 =>
            /\ ret'[p].kind = "list"
            /\ Len(ret'[p].results) = Min(call[p].top_k, Len(db.rows))]_vars

\* a query with top_k = 5 has returned all of three stored rows
C8_Witness ==
    /\ pc[Caller] = "done" /\ call[Caller].op = "query"
    /\ call[Caller].top_k = 5
    /\ Len(seen[Caller]) = 3
    /\ Len(ret[Caller].results) = 3

\* what query makes of one fetched row, and how often e occurs in a sequence
Entry(p, row) == score_row(embed_texts(has_model[p], <<call[p].text>>)[1], row)
Occ(seq, e) == Cardinality({i \in DOMAIN seq : seq[i] = e})
QueryDone(p) == pc[p] = "done" /\ call[p].op = "query"

(* C9: exact top-K.  The result of a query is a prefix of the rows it read *)
(* in descending score order: every result is one of these rows (none      *)
(* twice), scores do not increase along the result, no row left out scores *)
(* strictly higher than a returned row, and for top_k >= 0 the prefix has  *)
(* min(top_k, number of rows) elements.                                    *)
C9_ExactTopK ==
    \A p \in Procs :
        QueryDone(p) =>
            LET res == ret[p].results
                ents == [i \in DOMAIN seen[p] |-> Entry(p, seen[p][i])]
            IN  /\ \A i \in DOMAIN res : Occ(res, res[i]) <= Occ(ents, res[i])
                /\ \A i \in DOMAIN res, j \in DOMAIN res :
                      i < j => ~ScoreLess(res[i].score, res[j].score)
                /\ \A j \in DOMAIN ents :
                      Occ(res, ents[j]) < Occ(ents, ents[j]) =>
                          \A i \in DOMAIN res : ~ScoreLess(res[i].score, ents[j].score)
                /\ call[p].top_k >= 0 => Len(res) = Min(call[p].top_k, Len(ents))

\* a query over three rows has returned two, the best of them not the row
\* stored first, and has left out a row with a lower score
C9_Witness ==
    /\ QueryDone(Caller)
    /\ Len(seen[Caller]) = 3
    /\ Len(ret[Caller].results) = 2
    /\ ret[Caller].results[1] # Entry(Caller, seen[Caller][1])
    /\ \E j \in DOMAIN seen[Caller] :
          ScoreLess(Entry(Caller, seen[Caller][j]).score,
                    ret[Caller].results[2].score)

\* the row behind result i: results that are equal in every field come in
\* the order of the rows they were made from
RowAt(p, i) ==
    LET res == ret[p].results
        ents == [m \in DOMAIN seen[p] |-> Entry(p, seen[p][m])]
        k == Cardinality({j \in 1..i : res[j] = res[i]})
    IN  CHOOSE m \in DOMAIN ents :
            /\ ents[m] = res[i]
            /\ Cardinality({n \in 1..m : ents[n] = res[i]}) = k

(* C10: tie-breaking.  Of two rows with equal score for the query, the one *)
(* with the smaller id (inserted earlier) comes first in the result, and   *)
(* a row is left out only behind every returned row of equal score with a  *)
(* smaller id; also after rows were deleted and sources re-ingested.       *)
C10_TieBreak ==
    \A p \in Procs :
        QueryDone(p) =>
            LET res == ret[p].results
                used == {RowAt(p, i) : i \in DOMAIN res}
            IN  /\ \A i \in DOMAIN res, j \in DOMAIN res :
                      i < j /\ ScoreEq(res[i].score, res[j].score) =>
                          seen[p][RowAt(p, i)].id < seen[p][RowAt(p, j)].id
                /\ \A m \in DOMAIN seen[p] \ used, i \in DOMAIN res :
                      ScoreEq(res[i].score, Entry(p, seen[p][m]).score) =>
                          seen[p][RowAt(p, i)].id < seen[p][m].id

\* S was ingested, then T, then S again: the row of T has the smaller id
\* and comes before the row of S with the same score
C10_Witness ==
    /\ QueryDone(Caller)
    /\ seen[Caller] = db.rows
    /\ last.op = "ingest" /\ last.source_id = "S" /\ last.removed > 0
    /\ Len(ret[Caller].results) >= 2
    /\ ScoreEq(ret[Caller].results[1].score, ret[Caller].results[2].score)
    /\ ret[Caller].results[1].source_id = "T"
    /\ ret[Caller].results[2].source_id = "S"
    /\ \E old \in assigned : \A i \in DOMAIN db.rows : old < db.rows[i].id

\* row m read by the query of p is the one chunk of its source and its
\* content is the query text
SelfRow(p, m) ==
    /\ seen[p][m].content = call[p].text
    /\ Len(RowsOf(seen[p], seen[p][m].source_id)) = 1

\* the stored embedding of the row is what the provider of p makes of its content
EmbeddedAs(p, row) ==
    row.embedding = vector_to_blob(embed_texts(has_model[p], <<row.content>>)[1])

\* the score is 1: dot = norm_q * norm_e
IsOne(score) == score.dot > 0 /\ score.dot * score.dot = score.nq * score.ne

Increasing(rs) == \A i \in DOMAIN rs, j \in DOMAIN rs : i < j => rs[i].id < rs[j].id

(* C12: ingest result and count.  An ingest whose text yields n >= 1       *)
(* chunks ends by its commit, returns n and leaves exactly n rows for its  *)
(* source, whose contents are the chunks in document order and whose ids   *)
(* increase; and what count() returns is the number of rows stored, over   *)
(* all sources.                                                            *)
C12_IngestResultAndCount ==
    [][\A p \in Procs :
        /\ IngestEnds(p) /\ ~ZeroChunk(call[p]) =>
              LET n == Len(Chunks(call[p].text))
                  now == RowsOf(db'.rows, call[p].source_id)
              IN  /\ n >= 1
                  /\ ret'[p] = RetInt(n)
                  /\ Len(now) = n
                  /\ Contents(now) = Chunks(call[p].text)
                  /\ Increasing(now)
        /\ count_select(p) =>
              /\ pc'[p] = "done"
              /\ ret'[p] = RetInt(Len(db.rows))
              /\ ret'[p].n = Len(RowsOf(db.rows, "S")) + Len(RowsOf(db.rows, "T"))]_vars

\* count() has returned 3: the two chunks just ingested for one source and
\* the one chunk of the other source
C12_Witness ==
    /\ pc[Caller] = "done" /\ call[Caller].op = "count"
    /\ ret[Caller] = RetInt(3)
    /\ last.op = "ingest" /\ last.ret = 2
    /\ Len(RowsOf(db.rows, last.source_id)) = 2
    /\ Len(db.rows) = 3

(* C13: empty store.  While no row is stored: a query or a count that      *)
(* starts makes the file and the table when they are missing (a store      *)
(* never used before) and stores nothing; the SELECT of the query then     *)
(* does not raise and the query returns the empty list, for every text and *)
(* top_k; and count() returns 0.                                           *)
C13_EmptyStore ==
    [][\A p \in Procs :
        /\ (pc[p] = "idle" /\ pc'[p] = "select" /\ db.rows = <<>>) =>
              file' = "schema" /\ db' = db
        /\ (/\ pc[p] = "select" /\ call[p].op = "query"
            /\ file = "schema" /\ db.rows = <<>>
            /\ pc'[p] # pc[p]) =>
              /\ pc'[p] = "done"
              /\ ret'[p] = RetList(<<>>)
              /\ db' = db
        /\ (count_select(p) /\ db.rows = <<>>) =>
              /\ pc'[p] = "done"
              /\ ret'[p] = RetInt(0)
              /\ db' = db]_vars

\* a query with top_k = 5 has returned the empty list on a store in which
\* nothing was ever written or cleared
C13_Witness ==
    /\ QueryDone(Caller) /\ call[Caller].top_k = 5
    /\ ret[Caller] = RetList(<<>>)
    /\ last = NoLast /\ assigned = {}
    /\ file = "schema" /\ db = EmptyDb

\* the rows that decode
GoodRows(rs) == SelectSeq(rs, row_decodes)

(* C14: corrupt row isolation.  When the query reads a table in which one  *)
(* row has a malformed embedding blob or malformed metadata and at least   *)
(* one other row is intact, it ends normally and returns the ranking of    *)
(* the intact rows.                                                        *)
C14_CorruptRowSkipped ==
    [][\A p \in Procs :
        (/\ pc[p] = "select" /\ call[p].op = "query" /\ file = "schema"
         /\ Len(GoodRows(db.rows)) = Len(db.rows) - 1
         /\ GoodRows(db.rows) # <<>>
         /\ pc'[p] # pc[p]) =>
            /\ pc'[p] = "done"
            /\ ret'[p] = RetList(rank(active_model(p), GoodRows(db.rows),
                                      call[p].text, call[p].top_k))]_vars

\* a query has ended with an exception: one row it read is malformed, the
\* other rows are intact and one of them has the text of the query
C14_Witness ==
    /\ pc[Caller] = "raised" /\ call[Caller].op = "query"
    /\ seen[Caller] = db.rows
    /\ Len(GoodRows(db.rows)) = Len(db.rows) - 1
    /\ \E i \in DOMAIN db.rows :
          row_decodes(db.rows[i]) /\ db.rows[i].content = call[Caller].text

\* process p runs a statement that fails: the table is not there, or
\* another connection keeps the write lock
StatementFails(p) ==
    /\ pc[p] \in {"delete", "select"}
    /\ pc'[p] # pc[p]
    /\ \/ file # "schema"
       \/ pc[p] = "delete" /\ lock \notin {NoProc, p}

(* C15: storage failure is surfaced.  Whenever a statement of ingest,      *)
(* delete_source, query or count fails against the store, the call ends in *)
(* a failure that reaches the caller; it returns no value, in particular   *)
(* not 0 and not the empty list.                                           *)
C15_FailureSurfaced ==
    [][\A p \in Procs :
        StatementFails(p) => pc'[p] = "raised" /\ ret'[p] = NoRet]_vars

\* count() has returned 0 although its SELECT failed: the file with the
\* table was removed after the call's init_db
C15_Witness ==
    /\ pc[Caller] = "done" /\ call[Caller].op = "count"
    /\ ret[Caller] = RetInt(0)
    /\ file = "blank"

(* C16: embedding dimension invariant.  Every row a query has read has an  *)
(* embedding whose length is the embedding dimension of the reading        *)
(* process, which is the length of its query vector; also when the row was *)
(* written by an earlier process whose provider was the other one.         *)
C16_DimensionInvariant ==
    \A p \in Procs :
        QueryDone(p) =>
            \A i \in DOMAIN seen[p] :
                /\ Len(blob_to_vector(seen[p][i].embedding)) = embed_dim(p)
                /\ Len(blob_to_vector(seen[p][i].embedding))
                     = Len(embed_texts(active_model(p), <<call[p].text>>)[1])

\* a process that has the model has ranked a row written by the fallback
\* provider: the row has the text of the query and is not scored 1
C16_Witness ==
    /\ QueryDone(Caller) /\ has_model[Caller]
    /\ ret[Caller].results # <<>>
    /\ \E i \in DOMAIN seen[Caller] :
          /\ Len(blob_to_vector(seen[Caller][i].embedding)) = EMBED_DIM
          /\ seen[Caller][i].content = call[Caller].text
          /\ ~IsOne(Entry(Caller, seen[Caller][i]).score)

(* C17: provider selection is fixed.  The flag of a process is set only    *)
(* when the process starts, never inside or between the calls of a running *)
(* process; a process whose flag says that the model is unavailable embeds *)
(* every chunk it inserts and every query text with the deterministic      *)
(* fallback; and a call raises only when a statement against the store     *)
(* fails, never because the model is unavailable.                          *)
C17_ProviderFixed ==
    [][\A p \in Procs :
        /\ has_model'[p] # has_model[p] =>
              import_module(p) /\ pc'[p] = "idle" /\ call'[p] = NoCall
        /\ (ingest_insert(p) /\ ~has_model[p]) =>
              LET new == tx'[p].rows[Len(tx'[p].rows)]
              IN  new.embedding = vector_to_blob(embed_text(new.content))
        /\ (query_select(p) /\ ~has_model[p]) =>
              \A i \in DOMAIN ret'[p].results :
                  \E j \in DOMAIN db.rows :
                      ret'[p].results[i]
                        = score_row(embed_text(call[p].text), db.rows[j])
        /\ (pc'[p] = "raised" /\ pc[p] # "raised") => StatementFails(p)]_vars

\* a process without the model has ingested a chunk with a fallback
\* embedding into a store that holds a row written with the model
C17_Witness ==
    /\ ~has_model[Caller]
    /\ pc[Caller] = "done" /\ call[Caller].op = "ingest"
    /\ last.op = "ingest" /\ last.ret = 1
    /\ \E i \in DOMAIN db.rows :
          /\ db.rows[i].source_id = last.source_id
          /\ db.rows[i].embedding = vector_to_blob(embed_text(db.rows[i].content))
    /\ \E i \in DOMAIN db.rows :
          Len(blob_to_vector(db.rows[i].embedding)) = MODEL_DIM

\* the content is not empty and is its own trimmed form
Trimmed(content) == content # <<>> /\ strip(content) = content

(* C18: non-empty content invariant.  In every reachable state every row,  *)
(* committed or inserted in an open transaction, has a content that is not *)
(* empty and that begins and ends with a character that is no whitespace.  *)
C18_ContentNonEmpty ==
    /\ \A i \in DOMAIN db.rows : Trimmed(db.rows[i].content)
    /\ \A p \in Procs : \A i \in DOMAIN tx[p].rows : Trimmed(tx[p].rows[i].content)

\* the text "b\n\n\na " was ingested: its rows hold "b" and "a"
C18_Witness ==
    /\ last.op = "ingest"
    /\ last.text = <<"b", "\n", "\n", "\n", "a", " ">>
    /\ Contents(RowsOf(db.rows, last.source_id)) = << <<"b">>, <<"a">> >>

(***************************************************************************)
(* The chunking policy in the words of the specification, worked out on    *)
(* the lines of the text and not on its "\n\n" separators.                 *)
(***************************************************************************)
\* the lines of a text: what lies between its newline characters
RECURSIVE Lines(_)
Lines(s) ==
    IF \E i \in DOMAIN s : s[i] = "\n"
    THEN LET i == CHOOSE k \in DOMAIN s :
                    s[k] = "\n" /\ \A j \in 1..(k - 1) : s[j] # "\n"
         IN  <<SubSeq(s, 1, i - 1)>> \o Lines(SubSeq(s, i + 1, Len(s)))
    ELSE <<s>>

RECURSIVE JoinLines(_)
JoinLines(ls) ==
    IF ls = <<>> THEN <<>>
    ELSE IF Len(ls) = 1 THEN ls[1]
    ELSE ls[1] \o <<"\n">> \o JoinLines(Tail(ls))

\* a blank line: an empty line, and with ws also a line of spaces only
BlankLine(line, ws) ==
    IF ws THEN \A i \in DOMAIN line : line[i] = " " ELSE line = <<>>

\* the runs of lines between the blank lines; cur is the run in progress
RECURSIVE Paragraphs(_, _, _)
Paragraphs(ls, cur, ws) ==
    IF ls = <<>> THEN <<cur>>
    ELSE IF BlankLine(Head(ls), ws)
         THEN <<cur>> \o Paragraphs(Tail(ls), <<>>, ws)
         ELSE Paragraphs(Tail(ls), Append(cur, Head(ls)), ws)

\* split at the blank lines, trim each piece, drop the empty pieces
PolicyChunks(text, ws) ==
    LET paras == Paragraphs(Lines(text), <<>>, ws)
        pieces == [i \in DOMAIN paras |-> strip(JoinLines(paras[i]))]
    IN  SelectSeq(pieces, LAMBDA c : c # <<>>)

\* what an ingest that ends has stored for its source
StoredChunks(p) ==
    IF ZeroChunk(call[p]) THEN <<>>
    ELSE Contents(RowsOf(db'.rows, call[p].source_id))

(* C19 as stated: chunking policy.  The chunks an ingest stores are the    *)
(* pieces of its text between the blank lines, trimmed, the empty ones     *)
(* dropped, in document order; a blank line being a line with nothing on   *)
(* it or with nothing but spaces.                                          *)
C19_SplitAtBlankLines ==
    [][\A p \in Procs :
        IngestEnds(p) => StoredChunks(p) = PolicyChunks(call[p].text, TRUE)]_vars

(* C19 amended: the chunks an ingest stores are the pieces of its text     *)
(* between the empty lines (two newline characters in a row), trimmed, the *)
(* empty ones dropped, in document order; a line that holds only spaces is *)
(* no boundary and stays inside its chunk; and an ingest of the text of    *)
(* the ingest before it stores the same sequence again.                    *)
C19_ChunkingPolicy ==
    [][\A p \in Procs :
        IngestEnds(p) =>
            /\ StoredChunks(p) = PolicyChunks(call[p].text, FALSE)
            /\ (ZeroChunk(call[p]) => ret'[p] = RetInt(0))
            /\ (/\ last.op = "ingest" /\ last.text = call[p].text
                /\ last.source_id = call[p].source_id /\ last.ret > 0) =>
                  StoredChunks(p) = Contents(RowsOf(db.rows, call[p].source_id))]_vars

\* the text "a\n \na" was ingested as one chunk, with the line of one
\* space inside it
C19_Witness ==
    /\ pc[Caller] = "done" /\ call[Caller].op = "ingest"
    /\ call[Caller].text = <<"a", "\n", " ", "\n", "a">>
    /\ ret[Caller] = RetInt(1)
    /\ Contents(RowsOf(db.rows, call[Caller].source_id)) = <<call[Caller].text>>

(* C20: metadata round-trip.  After an ingest that stored chunks for       *)
(* source S has ended, every row of S holds a metadata text that reads     *)
(* back as the mapping that was passed to that ingest (the empty mapping   *)
(* when none was passed), and every result of a query for a chunk of S has *)
(* exactly that mapping in its metadata field.                             *)
C20_MetadataRoundTrip ==
    (last.op = "ingest" /\ last.ret > 0) =>
        /\ \A i \in DOMAIN db.rows :
              db.rows[i].source_id = last.source_id =>
                  json_loads(db.rows[i].metadata) = last.metadata
        /\ \A p \in Procs :
              QueryDone(p) =>
                  \A i \in DOMAIN ret[p].results :
                      ret[p].results[i].source_id = last.source_id =>
                          ret[p].results[i].metadata = last.metadata

\* a query has returned a chunk of the last ingest with the mapping
\* {"type": "features"} passed to it, and a chunk of the other source,
\* ingested without metadata, with the empty mapping
C20_Witness ==
    /\ QueryDone(Caller)
    /\ last.op = "ingest" /\ last.ret > 0
    /\ last.metadata = MetaDict(<<<<StrKey("type"), "features">>>>)
    /\ \E i \in DOMAIN ret[Caller].results, j \in DOMAIN ret[Caller].results :
          /\ ret[Caller].results[i].source_id = last.source_id
          /\ ret[Caller].results[i].metadata = last.metadata
          /\ ret[Caller].results[j].source_id # last.source_id
          /\ ret[Caller].results[j].metadata = MetaDict(<<>>)

(* C21: reset.  The clear removes the store file with every row in it and  *)
(* does nothing, without error, when there is no file; after it the store  *)
(* is as a store that starts empty: a count() that starts next returns 0,  *)
(* a query that starts next returns the empty list, and an ingest that     *)
(* starts next stores its chunks with the ids 1, 2, ... and returns their  *)
(* number.                                                                 *)
C21_Reset ==
    [][/\ clear =>
            /\ file' = "absent" /\ db' = EmptyDb /\ assigned' = {}
            /\ pc' = pc /\ ret' = ret
            /\ (file = "absent" => db' = db)
       /\ \A p \in Procs :
            last.op = "clear" =>
                /\ (count_select(p) /\ file = "schema") => ret'[p] = RetInt(0)
                /\ query_select(p) => ret'[p] = RetList(<<>>)
                /\ ingest_commit(p) =>
                      /\ ret'[p] = RetInt(Len(Chunks(call[p].text)))
                      /\ Contents(db'.rows) = Chunks(call[p].text)
                      /\ Ids(db'.rows) = 1..Len(Chunks(call[p].text))]_vars

\* a store that held rows was cleared, and the ingest that started next
\* has inserted its two chunks with the ids 1 and 2
C21_Witness ==
    /\ last.op = "clear" /\ last.removed > 0
    /\ pc[Caller] = "commit" /\ call[Caller].op = "ingest"
    /\ rows[Caller] = 2
    /\ Ids(tx[Caller].rows) = {1, 2}

\* what source S can hold after ingests and deletes run one after another
SerialOutcomes == {<<>>} \cup {Chunks(t) : t \in ConcTexts}

(* C22: concurrent writers are serialized (SpecConc).  When an ingest or a *)
(* delete_source commits, the committed rows are still the rows its        *)
(* transaction started from, so that the commit leaves what the operation  *)
(* leaves when it runs alone after everything committed before it: the     *)
(* chunks of the ingest, or no row, for its source.  In every state the    *)
(* rows of the source are the chunks of one ingest or none: rows of two    *)
(* ingests are never mixed.                                                *)
C22_WritersSerialized ==
    [][/\ \A p \in Procs :
            /\ ingest_commit(p) =>
                  /\ tx[p].base = db.rows
                  /\ db'.rows = DeleteWhere(db.rows, call[p].source_id)
                                   \o RowsOf(db'.rows, call[p].source_id)
                  /\ Contents(RowsOf(db'.rows, call[p].source_id)) = Chunks(call[p].text)
            /\ delete_source_commit(p) =>
                  /\ tx[p].base = db.rows
                  /\ db'.rows = DeleteWhere(db.rows, call[p].source_id)
       /\ \A src \in ConcSources :
            Contents(RowsOf(db'.rows, src)) \in SerialOutcomes]_vars

\* two ingests of one source with different texts are both complete and
\* not yet returned: the second has replaced the two rows of the first
C22_Witness ==
    \E w1 \in Procs, w2 \in Procs :
        /\ w1 # w2
        /\ pc[w1] = "done" /\ call[w1].op = "ingest" /\ ret[w1] = RetInt(2)
        /\ pc[w2] = "done" /\ call[w2].op = "ingest" /\ ret[w2] = RetInt(1)
        /\ call[w1].source_id = call[w2].source_id
        /\ last.op = "ingest" /\ last.text = call[w2].text /\ last.removed = 2
        /\ Contents(RowsOf(db.rows, call[w2].source_id)) = Chunks(call[w2].text)

(* C23: connection discipline.  When an operation has ended, normally or   *)
(* with an error, the connection it opened is closed; and no connection    *)
(* opened by an operation that has ended is open.                          *)
C23_ConnectionsReleased ==
    \A p \in Procs :
        /\ pc[p] \in {"done", "raised", "idle"} => ~conn[p]
        /\ leaked[p] = "none"

\* an ingest has raised in its insert loop and has ended; its connection
\* is still open inside the transaction, and the next ingest of the same
\* process has failed on the write lock that connection holds
C23_Witness ==
    /\ leaked[Caller] = "writer" /\ lock = Caller
    /\ tx[Caller].rows # db.rows
    /\ pc[Caller] = "raised" /\ call[Caller].op = "ingest"
    /\ conn[Caller]

\* the rows of every source but source_id
RowsNotOf(rs, source_id) == SelectSeq(rs, LAMBDA r : r.source_id # source_id)

(* C27: source isolation.  No step of an ingest or of a delete_source of   *)
(* source S changes the rows of another source: they stay the same rows    *)
(* (id, content, metadata, embedding) in the same order.                   *)
C27_SourceIsolation ==
    [][\A p \in Procs :
        (call[p].op \in {"ingest", "delete_source"} /\ pc'[p] # pc[p]) =>
            RowsNotOf(db'.rows, call[p].source_id)
                = RowsNotOf(db.rows, call[p].source_id)]_vars

\* an ingest of S has replaced rows of S while rows of T were stored
C27_Witness ==
    /\ pc[Caller] = "done" /\ call[Caller].op = "ingest"
    /\ call[Caller].source_id = "S"
    /\ last.op = "ingest" /\ last.removed > 0
    /\ RowsOf(db.rows, "T") # <<>>
    /\ RowsOf(db.rows, "S") # <<>>

\* a step at which the ingest of process p fails
IngestFails(p) ==
    \/ embed_error(p)
    \/ insert_error(p)
    \/ commit_error(p)
    \/ call[p].op = "ingest" /\ (no_such_table(p) \/ busy_timeout(p))

(* C28: a failed ingest leaves the store unchanged.  At the step where an  *)
(* ingest fails (embedding, DELETE, an INSERT or the commit) and at every  *)
(* later step of that call, the committed rows stay as they are; whenever  *)
(* the failed call had a transaction open, the committed rows are still    *)
(* the rows that were stored when the transaction began, however long the  *)
(* connection of the failed call lives; freeing that connection changes no *)
(* committed row; and a later query or count reads exactly those rows.     *)
C28_FailedIngestKeepsRows ==
    [][\A p \in Procs :
        /\ IngestFails(p) =>
                /\ db' = db
                /\ pc'[p] = "raised"
                /\ conn[p] => db.rows = tx[p].base
        /\ (call[p].op = "ingest" /\ pc[p] = "raised" /\ pc'[p] # pc[p]) =>
                /\ db' = db
                /\ pc'[p] = "idle"
        /\ (leaked[p] = "writer" \/ leaked'[p] = "writer") =>
                /\ lock = p
                /\ db.rows = tx[p].base
                /\ release(p) => db' = db
                /\ (query_select(p) \/ count_select(p)) => seen'[p] = tx[p].base
       ]_vars

\* an ingest of a source with stored rows failed after its DELETE and an
\* INSERT; its connection is still open; a later query has read the rows
\* that were stored before
C28_Witness ==
    /\ leaked[Caller] = "writer"
    /\ RowsOf(tx[Caller].base, "S") # <<>>
    /\ RowsOf(tx[Caller].rows, "S") # RowsOf(tx[Caller].base, "S")
    /\ tx[Caller].rows # DeleteWhere(tx[Caller].base, "S")
    /\ pc[Caller] = "done" /\ call[Caller].op = "query"
    /\ seen[Caller] = tx[Caller].base
    /\ db.rows = tx[Caller].base

(* C24: prompt cache set/get.  A get(k) returns the value of the last      *)
(* set(k, ...), and None when k was never set; so a later set overwrites;  *)
(* and a set(k, ...) leaves what get returns for every other key as it is. *)
C24_CacheSetGet ==
    [][\A k \in CacheKeys :
        /\ PromptCache_get(k) =>
              /\ \A v \in CacheValues :
                     <<k, v>> \in stored => cache_op'.value = PyStr(v)
              /\ (\A v \in CacheValues : <<k, v>> \notin stored)
                     => cache_op'.value = PyNone
              /\ cache' = cache
        /\ \A v \in CacheValues : PromptCache_set(k, v) =>
              /\ select_value(cache', k) = PyStr(v)
              /\ \A j \in CacheKeys \ {k} :
                     select_value(cache', j) = select_value(cache, j)
       ]_vars

\* k was set to v and then to w while j holds the empty str, and get(k)
\* has returned w
C24_Witness ==
    /\ cache_op = [op |-> "get", key |-> <<"k">>, value |-> PyStr(<<"w">>)]
    /\ cache = <<[key |-> <<"j">>, value |-> <<>>], [key |-> <<"k">>, value |-> <<"w">>]>>
    /\ stored = {<<<<"k">>, <<"w">>>>, <<<<"j">>, <<>>>>}

\* the text holds the words of the stub
HasMarker(text) == \E i \in DOMAIN text : text[i] = Marker

\* the calls that returned before, for a prompt and a model
Asked(prompt, model) == {e \in asked : e.prompt = prompt /\ e.model = model}

(* C25 as stated: with the network disabled, call_ai neither raises nor    *)
(* reaches the rate limiter, its text holds the stub's words, cached is    *)
(* false on the first call for a (prompt, model) pair and, with use_cache, *)
(* true with the same text on every later call for the pair.               *)
C25_NetworkGuard ==
    [][\A <<pr, m>> \in AiCalls, u \in BOOLEAN :
        (call_ai(pr, m, u) /\ ~AI_ENABLE_NETWORK) =>
            /\ ai_ret'.kind = "dict" /\ ~ai_ret'.limiter
            /\ UNCHANGED limiterVars
            /\ HasMarker(ai_ret'.text)
            /\ Asked(pr, effective_model(m)) = {} => ~ai_ret'.cached
            /\ (u /\ Asked(pr, effective_model(m)) # {}) =>
                   /\ ai_ret'.cached
                   /\ \A e \in Asked(pr, effective_model(m)) : ai_ret'.text = e.text
       ]_vars

(* C25, amended: with AI_ENABLE_NETWORK false, call_ai neither raises nor  *)
(* reaches the rate limiter and its text holds the stub's words; cached is *)
(* true exactly when use_cache is true and the cache holds a value under   *)
(* the key of (prompt, model), and the text is then that value; otherwise  *)
(* the text is the stub of the prompt, stored under the key when use_cache *)
(* is true; so once a call with use_cache has returned for a pair, every   *)
(* later call with use_cache for it returns cached true and the same text. *)
C25_NetworkGuardByKey ==
    [][\A <<pr, m>> \in AiCalls, u \in BOOLEAN :
        (call_ai(pr, m, u) /\ ~AI_ENABLE_NETWORK) =>
            LET model == effective_model(m)
                key == make_key(pr, model)
                hit == u /\ ~select_value(cache, key).none
            IN  /\ ai_ret'.kind = "dict" /\ ~ai_ret'.limiter
                /\ UNCHANGED limiterVars
                /\ HasMarker(ai_ret'.text)
                /\ ai_ret'.cached = hit
                /\ ai_ret'.text = IF hit THEN select_value(cache, key).s ELSE stub(pr)
                /\ u => select_value(cache', key) = PyStr(ai_ret'.text)
                /\ ~u => cache' = cache
                /\ \A e \in Asked(pr, model) :
                       (u /\ e.use_cache) => ai_ret'.cached /\ ai_ret'.text = e.text
       ]_vars

\* the environment says TRUE but the module was imported before: the flag
\* is false; the prompt was asked without the cache, then with it (cached
\* false both times), and a third call has returned the stub from the cache
C25_Witness ==
    /\ ~AI_ENABLE_NETWORK /\ environ = "TRUE"
    /\ ai_ret = [kind |-> "dict", text |-> stub(<<"h">>), model |-> AI_MODEL,
                 cached |-> TRUE, limiter |-> FALSE]
    /\ \E e \in Asked(<<"h">>, AI_MODEL) : ~e.use_cache
    /\ \E e \in Asked(<<"h">>, AI_MODEL) : e.use_cache /\ e.text = stub(<<"h">>)
    /\ select_value(cache, make_key(<<"h">>, AI_MODEL)) = PyStr(stub(<<"h">>))

\* how many tasks of the list have the id
CountId(tasks, id) == Cardinality({i \in DOMAIN tasks : tasks[i].has_id /\ tasks[i].id = id})

(* C26: todo merge without duplicates.  After merge_todos an id that was   *)
(* in existing occurs as often as before; an id that was not occurs once   *)
(* if a new task has it and not at all otherwise; and the appended count   *)
(* is the number of tasks added.                                           *)
C26_MergeNoDuplicates ==
    /\ \A id \in TaskIds :
          IF CountId(merge_op.before, id) > 0
          THEN CountId(todo.tasks, id) = CountId(merge_op.before, id)
          ELSE CountId(todo.tasks, id)
                   = IF CountId(merge_op.new_tasks, id) > 0 THEN 1 ELSE 0
    /\ merge_op.appended = Len(todo.tasks) - Len(merge_op.before)

\* two new tasks with one new id were merged into a todo that has another:
\* both were appended
C26_Witness ==
    /\ CountId(merge_op.before, PyStr(<<"a">>)) = 0
    /\ CountId(merge_op.before, PyStr(<<"b">>)) = 1
    /\ CountId(merge_op.new_tasks, PyStr(<<"a">>)) = 2
    /\ CountId(todo.tasks, PyStr(<<"a">>)) = 2
    /\ merge_op.appended = 2

\* a block of the acquire of thread t runs
AcquireStep(t) == \E n \in 0..MaxRequest : acquire_enter(t, n) \/ acquire_wake(t)

(* C29: token bucket bounds.  In every state the token count is between 0  *)
(* and the capacity; and a block of acquire that ends the call either      *)
(* returns, having deducted exactly the requested tokens from the refilled *)
(* bucket, or raises, having deducted none; a block that sends the call to *)
(* sleep deducts none.                                                     *)
C29_TokenBucketBounds ==
    /\ [](bucket.tokens >= 0 /\ bucket.tokens <= bucket.capacity)
    /\ [][\A t \in Procs :
            AcquireStep(t) =>
                LET refilled == add_tokens(bucket, monotonic)
                IN  /\ acq'[t].pc \in {"returned", "sleep", "raised"}
                    /\ bucket'.last = monotonic
                    /\ acq'[t].pc = "returned" =>
                           /\ bucket'.tokens = refilled.tokens - acq'[t].tokens
                           /\ acq'[t].took = acq'[t].tokens
                    /\ acq'[t].pc \in {"sleep", "raised"} =>
                           /\ bucket'.tokens = refilled.tokens
                           /\ acq'[t].took = 0
                    /\ acq'[t].pc = "raised" => acq[t].pc = "sleep"
         ]_vars

\* one thread has taken its tokens from a bucket that had refilled in part
\* while the other, which waited for them, has raised
C29_Witness ==
    /\ acq["p1"].pc = "raised" /\ acq["p1"].took = 0
    /\ acq["p2"].pc = "returned" /\ acq["p2"].took = 2
    /\ bucket.tokens = 0 /\ bucket.capacity = 2
    /\ bucket.last > 0

(* C30: acquire succeeds after waiting.  No acquire that asks for at most  *)
(* the capacity ends with RuntimeError.                                    *)
C30_AcquireSucceeds ==
    \A t \in Procs :
        acq[t].tokens <= bucket.capacity => acq[t].pc # "raised"

\* a thread that asked for the capacity has waited its refill time, the
\* other thread has taken tokens during the wait, and the thread has raised
C30_Witness ==
    /\ acq["p1"].pc = "raised"
    /\ acq["p1"].tokens = bucket.capacity
    /\ acq["p1"].during > 0
    /\ monotonic >= acq["p1"].wake

====
